---------------------------- MODULE Spec2Model ----------------------------
(***************************************************************************)
(* A model of the wyvern-mc server core: the chunk section store, the      *)
(* dimension actor and its mailbox, the server's entity-id counter, the    *)
(* play-stage state of a connection (teleport sync, chunk streaming, the   *)
(* new-dimension flow, digging, block placement), the task runtime with    *)
(* the event bus, the protocol stage, the lifetime of an actor, and the    *)
(* server's lists of connections and dimensions.                           *)
(*                                                                         *)
(* One module holds several specifications over the same variables; each   *)
(* specification moves the variables of one subsystem and leaves the       *)
(* others as they were constructed:                                        *)
(*   SpecSection  ChunkSection::set_block_at / set_block_at_by_id          *)
(*   SpecDim      producers -> Dimension mailbox -> set_block              *)
(*   SpecEntity   spawn_entity on two dimensions -> Server.new_entity_id   *)
(*   SpecTeleport move packets and teleport acknowledgements               *)
(*   SpecJoin     the new-dimension flow and the connection's mailbox      *)
(*   SpecChunks   send_chunks under moves and view-distance changes        *)
(*   SpecTasks    spawn_event -> task pool -> Event::dispatch -> handlers  *)
(*   SpecDig      PlayerAction packets: digging, its write and its events  *)
(*   SpecLocal    section writes at positions inside and outside a section *)
(*   SpecGen      Chunk::set_block_at / set_block_at_by_id on one chunk    *)
(*   SpecWorld    set_block / get_block / get_chunk_section, any position  *)
(*   SpecStage    the protocol stage of a connection                       *)
(*   SpecLife     handles of an actor and the end of its event loop        *)
(*   SpecList     the server's connection list and its main loop           *)
(*   SpecTable    the entity table of a dimension and the joining player   *)
(*   SpecRegistry create_dimension and Server::dimension                   *)
(*   SpecShape    the sections of a chunk, however it was built            *)
(*   SpecJoinFair SpecJoin with the connection's thread making progress    *)
(*   SpecPlace    UseItemOn packets: the held stack, the write, the event  *)
(*   SpecAccept   AcceptTeleportation packets with any teleport id         *)
(*   SpecCast     set_block and the block-update packets of its broadcast  *)
(*   SpecInv      inventory packets: clicks, the held slot and drops       *)
(*   SpecLock     calls between the server's and the connections' threads  *)
(*   SpecStream   chunk transfers on the task pool and the packets written *)
(*   SpecType     chunks of dimension types with any min_y and height      *)
(***************************************************************************)
EXTENDS Integers, Sequences, FiniteSets, TLC

VARIABLES
    section,        \* one ChunkSection: block_count, blocks, block_meta
    chunks,         \* DimensionData.chunks of the dimension under SpecDim
    dimMailbox,     \* the dimension's mailbox (messages in flight)
    sentLog,        \* per producer: the set_block requests it has sent, in order
    handledLog,     \* the requests the dimension actor has handled, in order
    spawned,        \* tasks / events the dimensions have handed to the runtime
    last_entity_id, \* ServerData.last_entity_id
    srvMailbox,     \* the server's mailbox
    dimActors,      \* SpecEntity: per dimension its mailbox, entity table and
                    \* the place of its thread in spawn_entity
    issuedIds,      \* the ids new_entity_id has returned, in order
    conn,           \* ConnectionData of one connection in the Play stage
    connStack,      \* the handlers in progress on the connection's thread
    connMailbox,    \* the connection's mailbox
    joinToken,      \* PlayerJoinEvent.new_dimension of the event in flight
    joinTask,       \* what the PlayerJoinEvent handlers have still to do
    lastPacket,     \* the packet handled last: what it found and what it did
    stream,         \* chunks scheduled while position and render distance
                    \* stayed the same, in order
    taskQueue,      \* the channel of Runtime::spawn_task (tasks not yet taken)
    workers,        \* the TaskThread workers: idle, running a task, or dead
    dispatchLog,    \* the events whose dispatch has run, in order
    runLog,         \* the handler tasks that have run, with their outcome
    spawnLog,       \* the events handed to Server::spawn_event, in order
    digLog,         \* the PlayerAction handlers that have returned
    stage,          \* the protocol stage of the connection
    actors,         \* per actor: its senders, its handles and its thread
    genChunk,       \* a Chunk in the hands of a chunk generator
    lastCall,       \* the call made last on the section or the dimension
    panics,         \* how many calls have panicked
    connections,    \* ServerData.connections
    peers,          \* per accepted connection: its stage, its thread and its
                    \* termination signal
    srvQueue,       \* the requests waiting in the server's mailbox
    replies,        \* what handle_messages answered when it ran last
    srvLoop,        \* where handle_loops is, and the ticks it has made
    entities,       \* DimensionData.entities of the dimension example:root
    entityCall,     \* the request about entities the dimension handled last
    playerSpawns,   \* the spawn_player_entity requests handled so far
    dimensions,     \* ServerData.dimensions: identifier -> Dimension handle
    dimThreads,     \* the DimensionThread threads started, in order
    regCall,        \* the request about dimensions the server handled last
    heldItem,       \* the stack in the held slot of the connection's inventory
    useLog,         \* the UseItemOn packets handled, in order
    placeLog,       \* the set_block requests of UseItemOn the dimension handled
    casts,          \* the broadcast tasks set_block has spawned, in order
    blockUpdates,   \* per connection: the block-update packets written to it
    inv,            \* the connection's inventory, open screen and held slot
    lastInv,        \* the inventory packet handled last and how it ended
    srvActor,       \* the Server's thread: its mailbox and the call it waits in
    connActor,      \* per connection: its mailbox and where its thread is
    askTasks,       \* the tasks that called Server::player, and their answers
    entitySends,    \* per run of the new-dimension flow: the AddEntity uuids
    transfers,      \* the chunk transfers send_chunks has spawned, in order
    writer,         \* the chunk packets written to the connection, in order
    typeCall        \* the last call on a chunk of a chosen dimension type

sectionVars == <<section>>
dimVars     == <<chunks, dimMailbox, sentLog, handledLog>>
entityVars  == <<last_entity_id, srvMailbox, dimActors, issuedIds>>
connVars    == <<conn, connStack, connMailbox, joinToken, joinTask, lastPacket, stream>>
taskVars    == <<taskQueue, workers, dispatchLog, runLog, spawnLog, digLog>>
stageVars   == <<stage>>
lifeVars    == <<actors>>
worldVars   == <<genChunk, lastCall, panics>>
listVars    == <<connections, peers, srvQueue, replies, srvLoop>>
tableVars   == <<entities, entityCall, playerSpawns>>
regVars     == <<dimensions, dimThreads, regCall>>
itemVars    == <<heldItem, useLog, placeLog>>
castVars    == <<casts, blockUpdates>>
invVars     == <<inv, lastInv>>
lockVars    == <<srvActor, connActor, askTasks>>
flowVars    == <<entitySends>>
streamVars  == <<transfers, writer>>
typeVars    == <<typeCall>>
extVars     == <<castVars, invVars, lockVars, flowVars, streamVars, typeVars>>
extButCast  == <<invVars, lockVars, flowVars, streamVars, typeVars>>
extButInv   == <<castVars, lockVars, flowVars, streamVars, typeVars>>
extButLock  == <<castVars, invVars, flowVars, streamVars, typeVars>>
extButJoin  == <<castVars, invVars, lockVars, typeVars>>
extButStream == <<castVars, invVars, lockVars, flowVars, typeVars>>
actorVars   == <<listVars, tableVars, regVars, itemVars, extVars>>
vars        == <<section, chunks, dimMailbox, sentLog, handledLog, spawned,
                 last_entity_id, srvMailbox, dimActors, issuedIds,
                 conn, connStack, connMailbox, joinToken, joinTask, lastPacket, stream,
                 taskQueue, workers, dispatchLog, runLog, spawnLog, digLog,
                 stage, actors, genChunk, lastCall, panics, actorVars>>

---------------------------------------------------------------------------
(* Block states.  A block state is a name plus an optional CUSTOM_DATA     *)
(* component; its protocol id is its place in the global block registry.   *)

NoData == "none"
NbtValues == {"nbtA"}

BlockRegistry == <<"air", "stone", "grass_block", "chest", "dirt">>
BlockNames == {BlockRegistry[i] : i \in 1..Len(BlockRegistry)}

BlockStates == [name : BlockNames, custom_data : {NoData} \cup NbtValues]

\* BlockState::protocol_id: the id of the state's name in the registry.
ProtocolId(block) ==
    (CHOOSE i \in 1..Len(BlockRegistry) : BlockRegistry[i] = block.name) - 1

\* BlockState::from_protocol_id: the state with that id and no components.
FromProtocolId(id) ==
    [name |-> BlockRegistry[id + 1], custom_data |-> NoData]

\* BlockState::new(name): a state with no components.
NewBlockState(name) == [name |-> name, custom_data |-> NoData]

---------------------------------------------------------------------------
(* RawDataArray: 4096 entries, all zero after ChunkSection::empty().  The  *)
(* array is kept as the finite map of its non-zero entries; ArrGet reads   *)
(* every other index below ArrLen as 0 and fails at or above ArrLen.       *)

ArrLen == 4096

EmptyArr == [i \in {} |-> 0]

ArrHas(arr, idx) == idx >= 0 /\ idx < ArrLen

ArrGet(arr, idx) == IF idx \in DOMAIN arr THEN arr[idx] ELSE 0

ArrSet(arr, idx, v) ==
    LET dom == IF v = 0 THEN DOMAIN arr \ {idx} ELSE DOMAIN arr \cup {idx}
    IN  [j \in dom |-> IF j = idx THEN v ELSE arr[j]]

\* A HashMap as a function on its keys.
MapInsert(m, k, v) == [j \in DOMAIN m \cup {k} |-> IF j = k THEN v ELSE m[j]]
MapRemove(m, k) == [j \in DOMAIN m \ {k} |-> m[j]]
EmptyMap == [i \in {} |-> 0]

---------------------------------------------------------------------------
(* ChunkSection                                                            *)

\* ChunkSection::index_from_pos, pos = <<x, y, z>>
IndexFromPos(pos) == pos[2] * 256 + pos[3] * 16 + pos[1]

\* ChunkSection::empty
SectionEmpty == [block_count |-> 0, blocks |-> EmptyArr, block_meta |-> EmptyMap]

\* The block_count update shared by both writes.
CountAfter(count, old_block, new_block) ==
    IF old_block = 0 /\ new_block # 0 THEN count + 1
    ELSE IF old_block # 0 /\ new_block = 0 THEN count - 1
    ELSE count

SectionSetBlockAtByIdBroken(sec, pos, new_block) ==
    LET idx == IndexFromPos(pos)
        old_block == ArrGet(sec.blocks, idx)
    IN  [sec EXCEPT !.block_count =
                        IF old_block = 0 /\ new_block # 0 THEN @ + 1 ELSE @,
                    !.blocks = ArrSet(@, idx, new_block)]

\* ChunkSection::set_block_at_by_id
SectionSetBlockAtById(sec, pos, new_block) ==
    LET idx == IndexFromPos(pos)
        old_block == ArrGet(sec.blocks, idx)
    IN  [sec EXCEPT !.block_count = CountAfter(@, old_block, new_block),
                    !.blocks = ArrSet(@, idx, new_block)]

\* ChunkSection::set_block_at
SectionSetBlockAt(sec, pos, block) ==
    LET idx == IndexFromPos(pos)
        old_block == ArrGet(sec.blocks, idx)
        new_block == ProtocolId(block)
    IN  [sec EXCEPT !.block_count = CountAfter(@, old_block, new_block),
                    !.blocks = ArrSet(@, idx, new_block),
                    !.block_meta = IF block.custom_data # NoData
                                   THEN MapInsert(@, pos, block.custom_data)
                                   ELSE @]

\* ChunkSection::get_block_at
SectionGetBlockAt(sec, pos) ==
    LET ptc == ArrGet(sec.blocks, IndexFromPos(pos))
        state == FromProtocolId(ptc)
    IN  IF pos \in DOMAIN sec.block_meta
        THEN [state EXCEPT !.custom_data = sec.block_meta[pos]]
        ELSE state

\* Local positions written in the section specification.
SectionPositions == {<<0, 0, 0>>, <<15, 0, 0>>, <<3, 15, 0>>, <<15, 15, 15>>}

\* Ids written through set_block_at_by_id.
MaxBlockId == 2

SetBlockAt ==
    /\ \E pos \in SectionPositions, block \in BlockStates :
          /\ ArrHas(section.blocks, IndexFromPos(pos))
          /\ section' = SectionSetBlockAt(section, pos, block)
    /\ UNCHANGED <<dimVars, spawned, entityVars, connVars,
                 taskVars, stageVars, lifeVars, actorVars,
                 worldVars>>

SetBlockAtById ==
    /\ \E pos \in SectionPositions, id \in 0..MaxBlockId :
          /\ ArrHas(section.blocks, IndexFromPos(pos))
          /\ section' = SectionSetBlockAtById(section, pos, id)
    /\ UNCHANGED <<dimVars, spawned, entityVars, connVars,
                 taskVars, stageVars, lifeVars, actorVars,
                 worldVars>>

---------------------------------------------------------------------------
(* Chunk                                                                   *)

\* Rust's / and % on i32 truncate toward zero; div_euclid and rem_euclid
\* floor for a positive divisor (as TLA+'s \div and % do).
TruncDiv(a, b) == IF a >= 0 THEN a \div b ELSE -((-a) \div b)
TruncRem(a, b) == a - b * TruncDiv(a, b)
DivEuclid(a, b) == a \div b
RemEuclid(a, b) == a % b

\* A usize is kept as its representative modulo 2^64 nearest to zero: `as
\* usize` of a negative i32 v is v + 2^64, written v here, and UsizeLt is
\* the order of the values the representatives stand for.
UsizeLt(idx, len) == idx >= 0 /\ idx < len
WithY(pos, y) == <<pos[1], y, pos[3]>>

\* An Option: None is the empty sequence, Some(v) the one-element sequence.
None == <<>>
Some(v) == <<v>>

\* BLOCK_ENTITY_REGISTRY.get(name): the block-entity type id of a name that
\* has a block entity.
BlockEntityType(name) == IF name = "chest" THEN Some(1) ELSE None

ChunkNewInclusive(min_sections, max_sections) ==
    LET total_sections == max_sections + (-min_sections)
    IN  [min_sections |-> min_sections,
         max_sections |-> max_sections,
         sections |-> [i \in 1..(total_sections + 1) |-> SectionEmpty],
         block_entities |-> EmptyMap]

\* Chunk::new
ChunkNew(min_sections, max_sections) ==
    LET total_sections == max_sections + (-min_sections)
    IN  [min_sections |-> min_sections,
         max_sections |-> max_sections,
         sections |-> [i \in 1..total_sections |-> SectionEmpty],
         block_entities |-> EmptyMap]

\* Chunk::section_at_mut: the 1-based place of the section in `sections`, or
\* 0 when sections.get_mut(..) is None.
SectionSlot(chunk, section_y) ==
    LET idx == section_y - chunk.min_sections
    IN  IF UsizeLt(idx, Len(chunk.sections)) THEN idx + 1 ELSE 0

ChunkSetBlockAtTruncY(chunk, pos, block) ==
    LET section_y == TruncDiv(pos[2], 16)
        local_y == RemEuclid(pos[2], 16)
        slot == SectionSlot(chunk, section_y)
    IN  IF slot # 0
        THEN [chunk EXCEPT
                !.sections[slot] = SectionSetBlockAt(@, WithY(pos, local_y), block)]
        ELSE chunk

\* Chunk::set_block_at
ChunkSetBlockAt(chunk, pos, block) ==
    LET section_y == DivEuclid(pos[2], 16)
        local_y == RemEuclid(pos[2], 16)
        slot == SectionSlot(chunk, section_y)
        id == BlockEntityType(block.name)
    IN  IF slot # 0
        THEN [chunk EXCEPT
                !.sections[slot] =
                    SectionSetBlockAt(@, WithY(pos, local_y), block),
                !.block_entities =
                    IF id # None THEN MapInsert(@, pos, id[1])
                    ELSE MapRemove(@, pos)]
        ELSE chunk

\* Chunk::set_block_at_by_id
ChunkSetBlockAtById(chunk, pos, block) ==
    LET section_y == DivEuclid(pos[2], 16)
        local_y == RemEuclid(pos[2], 16)
        slot == SectionSlot(chunk, section_y)
    IN  IF slot # 0
        THEN [chunk EXCEPT
                !.sections[slot] =
                    SectionSetBlockAtById(@, WithY(pos, local_y), block)]
        ELSE chunk

\* Chunk::get_block_at
ChunkGetBlockAt(chunk, pos) ==
    LET section_y == DivEuclid(pos[2], 16)
        local_y == RemEuclid(pos[2], 16)
        slot == SectionSlot(chunk, section_y)
    IN  IF slot # 0
        THEN SectionGetBlockAt(chunk.sections[slot], WithY(pos, local_y))
        ELSE FromProtocolId(0)

---------------------------------------------------------------------------
(* Dimension actor                                                         *)

\* The dimension type the registry holds for the dimension (min_y, height).
DimType == [min_y |-> -64, height |-> 384]

\* The chunk try_initialize_chunk builds for a dimension type.
ChunkOfType(dim_type) ==
    LET min_sections == TruncDiv(dim_type.min_y, 16)
        max_sections == TruncDiv(dim_type.min_y + dim_type.height, 16)
    IN  ChunkNew(min_sections, max_sections)

\* The chunk generator: the default set by DimensionData::new is a no-op.
ChunkGenerator(chunk, cx, cz) == chunk

TryInitializeChunkAlways(cs, pos) ==
    LET min_sections == TruncDiv(DimType.min_y, 16)
        max_sections == TruncDiv(DimType.min_y + DimType.height, 16)
        chunk == ChunkGenerator(ChunkNew(min_sections, max_sections),
                                pos[1], pos[2])
    IN  <<MapInsert(cs, pos, chunk),
          <<[kind |-> "ChunkLoadEvent", pos |-> pos]>>>>

\* DimensionData::try_initialize_chunk: the chunk map and the events handed
\* to the runtime after the call, as <<chunks, events>>.
TryInitializeChunk(cs, pos) ==
    IF pos \notin DOMAIN cs
    THEN LET chunk == ChunkGenerator(ChunkOfType(DimType), pos[1], pos[2])
         IN  <<MapInsert(cs, pos, chunk),
               <<[kind |-> "ChunkLoadEvent", pos |-> pos]>>>>
    ELSE <<cs, <<>>>>

\* DimensionData::set_block: <<chunks, tasks and events spawned>>.
DimSetBlock(cs, position, block_state) ==
    LET chunk_pos == <<TruncDiv(position[1], 16), TruncDiv(position[3], 16)>>
        pos_in_chunk == <<TruncRem(position[1], 16), position[2],
                          TruncRem(position[3], 16)>>
        init == TryInitializeChunk(cs, chunk_pos)
        cs1 == init[1]
    IN  <<[cs1 EXCEPT ![chunk_pos] = ChunkSetBlockAt(@, pos_in_chunk, block_state)],
          init[2] \o <<[kind |-> "BlockUpdate", pos |-> position,
                        block |-> block_state]>>>>

\* DimensionData::get_block: <<block state, chunks, events spawned>>.
DimGetBlock(cs, position) ==
    LET chunk == <<TruncDiv(position[1], 16), TruncDiv(position[3], 16)>>
        pos_in_chunk == <<TruncRem(position[1], 16), position[2],
                          TruncRem(position[3], 16)>>
        init == TryInitializeChunk(cs, chunk)
    IN  <<ChunkGetBlockAt(init[1][chunk], pos_in_chunk), init[1], init[2]>>

(* The mailbox of an actor: an unbounded FIFO channel.  A handle method     *)
(* appends its message; the actor's loop takes the message at the head,    *)
(* runs its handler to completion and replies.                             *)
MailboxSend(box, msg) == Append(box, msg)
MailboxRecvLast(box) == [msg |-> box[Len(box)], rest |-> SubSeq(box, 1, Len(box) - 1)]
MailboxRecv(box) == [msg |-> Head(box), rest |-> Tail(box)]

\* The threads that write blocks, and how many writes each of them issues.
Producers == {"p1", "p2"}
MaxWrites == 2

\* World positions written: in two chunks, one of them below y = 0.
DimPositions == {<<0, 10, 0>>, <<17, -3, 5>>}
DimBlocks == {NewBlockState("stone"), NewBlockState("air")}

\* Dimension::set_block on a handle: the request goes into the mailbox.
ProducerSetBlock(p) ==
    /\ Len(sentLog[p]) < MaxWrites
    /\ \E position \in DimPositions, block_state \in DimBlocks :
         LET msg == [op |-> "SetBlock", from |-> p, seq |-> Len(sentLog[p]) + 1,
                     position |-> position, block_state |-> block_state]
         IN  /\ dimMailbox' = MailboxSend(dimMailbox, msg)
             /\ sentLog' = [sentLog EXCEPT ![p] = Append(@, msg)]
    /\ UNCHANGED <<chunks, handledLog, spawned>>
    /\ UNCHANGED <<sectionVars, entityVars, connVars,
                 taskVars, stageVars, lifeVars, actorVars,
                 worldVars>>

\* One turn of the dimension's event loop on a SetBlock message.
DimHandleSetBlock ==
    /\ dimMailbox # <<>>
    /\ LET got == MailboxRecv(dimMailbox)
           res == DimSetBlock(chunks, got.msg.position, got.msg.block_state)
       IN  /\ got.msg.op = "SetBlock"
           /\ dimMailbox' = got.rest
           /\ chunks' = res[1]
           /\ spawned' = spawned \o res[2]
           /\ handledLog' = Append(handledLog, <<got.msg.from, got.msg.seq>>)
    /\ UNCHANGED sentLog
    /\ UNCHANGED <<sectionVars, entityVars, connVars,
                 taskVars, stageVars, lifeVars, actorVars,
                 worldVars>>

---------------------------------------------------------------------------
(* Server.new_entity_id and Dimension.spawn_entity                         *)

\* last_entity_id is an i32.
I32Max == 2147483647

NewEntityIdStale(last) == last

\* ServerData::new_entity_id: the counter after `self.last_entity_id += 1`,
\* which is also the id returned.  At i32::MAX a release build wraps (a debug
\* build panics).
NewEntityId(last) == IF last = I32Max THEN -I32Max - 1 ELSE last + 1

\* The dimensions of the server, the spawn_entity calls made on them in all,
\* and the UUIDs Uuid::new_v4 may draw.
Dimensions == {"dimA", "dimB"}
MaxSpawns == 3
Uuids == 1..MaxSpawns
EntityTypes == {"minecraft:pig"}

SpawnsCalled ==
    LET Waiting(d) == IF dimActors[d].pc = "await_id" THEN 1 ELSE 0
        RECURSIVE Sum(_)
        Sum(ds) == IF ds = {} THEN 0
                   ELSE LET d == CHOOSE x \in ds : TRUE
                        IN  Len(dimActors[d].mailbox) + Waiting(d)
                            + Cardinality(DOMAIN dimActors[d].entities)
                            + Sum(ds \ {d})
    IN  Sum(Dimensions)

\* Dimension::spawn_entity on a handle: the request goes into d's mailbox.
CallSpawnEntity(d) ==
    /\ SpawnsCalled < MaxSpawns
    /\ \E entity_type \in EntityTypes :
         dimActors' = [dimActors EXCEPT ![d].mailbox =
                          MailboxSend(@, [op |-> "SpawnEntity",
                                          entity_type |-> entity_type])]
    /\ UNCHANGED <<last_entity_id, srvMailbox, issuedIds, spawned>>
    /\ UNCHANGED <<sectionVars, dimVars, connVars,
                 taskVars, stageVars, lifeVars, actorVars,
                 worldVars>>

\* DimensionData::spawn_entity, up to the call of Server::new_entity_id: a
\* UUID not in use is drawn and the request is sent to the server.
SpawnEntityBegin(d) ==
    /\ dimActors[d].pc = "recv"
    /\ dimActors[d].mailbox # <<>>
    /\ LET got == MailboxRecv(dimActors[d].mailbox)
       IN  /\ got.msg.op = "SpawnEntity"
           /\ \E uuid \in Uuids \ DOMAIN dimActors[d].entities :
                dimActors' = [dimActors EXCEPT
                                ![d].mailbox = got.rest,
                                ![d].pc = "await_id",
                                ![d].uuid = uuid,
                                ![d].entity_type = got.msg.entity_type]
           /\ srvMailbox' = MailboxSend(srvMailbox, [op |-> "NewEntityId", from |-> d])
    /\ UNCHANGED <<last_entity_id, issuedIds, spawned>>
    /\ UNCHANGED <<sectionVars, dimVars, connVars,
                 taskVars, stageVars, lifeVars, actorVars,
                 worldVars>>

\* One turn of the server's loop on a NewEntityId message.
ServerHandleNewEntityId ==
    /\ srvMailbox # <<>>
    /\ LET got == MailboxRecv(srvMailbox)
           id == NewEntityId(last_entity_id)
       IN  /\ got.msg.op = "NewEntityId"
           /\ srvMailbox' = got.rest
           /\ last_entity_id' = id
           /\ issuedIds' = Append(issuedIds, id)
           /\ dimActors' = [dimActors EXCEPT ![got.msg.from].reply = Some(id)]
    /\ UNCHANGED spawned
    /\ UNCHANGED <<sectionVars, dimVars, connVars,
                 taskVars, stageVars, lifeVars, actorVars,
                 worldVars>>

\* DimensionData::spawn_entity, from the server's reply on: the record is
\* inserted at the origin and the add-entity broadcast is spawned.
SpawnEntityEnd(d) ==
    /\ dimActors[d].pc = "await_id"
    /\ dimActors[d].reply # None
    /\ LET id == dimActors[d].reply[1]
           uuid == dimActors[d].uuid
           data == [entity_type |-> dimActors[d].entity_type, uuid |-> uuid,
                    id |-> id, position |-> <<0, 0, 0>>, heading |-> <<0, 0>>]
       IN  /\ dimActors' = [dimActors EXCEPT
                              ![d].entities = MapInsert(@, uuid, data),
                              ![d].pc = "recv",
                              ![d].reply = None]
           /\ spawned' = Append(spawned, [kind |-> "AddEntity", dim |-> d,
                                          id |-> id, uuid |-> uuid])
    /\ UNCHANGED <<last_entity_id, srvMailbox, issuedIds>>
    /\ UNCHANGED <<sectionVars, dimVars, connVars,
                 taskVars, stageVars, lifeVars, actorVars,
                 worldVars>>

---------------------------------------------------------------------------
(* The connection actor in the Play stage.  One connection is modelled:    *)
(* its ConnectionData, the packets its handler reads from the socket, its  *)
(* mailbox, and the PlayerJoinEvent handlers that run on the task pool.    *)
(* Coordinates are whole numbers; the position that send_chunks reads and  *)
(* the POSITION component that the move packets write are the same value.  *)

UnwrapOr(opt, default) == IF opt = None THEN default ELSE opt[1]

Contains(seq, e) == \E i \in 1..Len(seq) : seq[i] = e

\* i32::isqrt: the integer square root, rounded down.
ISqrt(n) == CHOOSE k \in 0..n : k * k <= n /\ (k + 1) * (k + 1) > n

\* The sort key of send_chunks: isqrt(dx^2 + dz^2).
ChunkDist(pos, cx, cz) ==
    ISqrt((pos[1] - cx) * (pos[1] - cx) + (pos[2] - cz) * (pos[2] - cz))

\* Vec::sort_by is stable: the result lists the elements by ascending key,
\* elements with equal keys in the order they had.  Built key by key,
\* from the key `from` up to the largest key in the sequence.
RECURSIVE SortFrom(_, _, _, _)
SortFrom(seq, cx, cz, from) ==
    IF \A i \in 1..Len(seq) : ChunkDist(seq[i], cx, cz) < from THEN <<>>
    ELSE SelectSeq(seq, LAMBDA pos : ChunkDist(pos, cx, cz) = from)
           \o SortFrom(seq, cx, cz, from + 1)

SortByDist(seq, cx, cz) == SortFrom(seq, cx, cz, 0)

\* f64::floor(x / 16.0) as i32
ChunkCenter(position) == <<position[1] \div 16, position[3] \div 16>>

\* (render_distance / 2) + 2, in i32 arithmetic
HalfSide(render_distance) == TruncDiv(render_distance, 2) + 2

\* The filter that prunes loaded_chunks: both bounds are inclusive.
InWindow(pos, cx, cz, r) ==
    /\ pos[1] >= cx - r /\ pos[1] <= cx + r
    /\ pos[2] >= cz - r /\ pos[2] <= cz + r

\* The nested loops over (cx - r)..(cx + r) and (cz - r)..(cz + r): the
\* ranges exclude their upper end.  Chunks already loaded are skipped.
Candidates(loaded, cx, cz, r) ==
    LET side == IF r > 0 THEN 2 * r ELSE 0
        all  == [k \in 1..(side * side) |->
                   <<cx - r + ((k - 1) \div side), cz - r + ((k - 1) % side)>>]
    IN  SelectSeq(all, LAMBDA pos : ~Contains(loaded, pos))

\* The end of send_chunks: the first chunk of the sorted list, if there is
\* one, is pushed onto loaded_chunks and its streaming task is spawned.
\* The result holds the connection after the call and a record of the
\* call: whether it ran, the chunk scheduled, the coordinates added.
ScheduleFirst(c, chunk_center, kept, sorted) ==
    LET loaded == IF sorted = <<>> THEN kept ELSE Append(kept, sorted[1])
    IN  [conn |-> [c EXCEPT !.last_chunk_position = chunk_center,
                            !.loaded_chunks = loaded],
         call |-> [ran |-> TRUE,
                   scheduled |-> IF sorted = <<>> THEN None ELSE Some(sorted[1]),
                   added |-> {loaded[i] : i \in 1..Len(loaded)}
                               \ {c.loaded_chunks[i] :
                                    i \in 1..Len(c.loaded_chunks)}]]

\* The middle of send_chunks: the pruned list, the candidates and the sort.
PruneAndSort(c, chunk_center, r, kept) ==
    ScheduleFirst(c, chunk_center, kept,
                  SortByDist(Candidates(kept, chunk_center[1], chunk_center[2], r),
                             chunk_center[1], chunk_center[2]))

SendChunksAt(c, chunk_center, r) ==
    PruneAndSort(c, chunk_center, r,
                 SelectSeq(c.loaded_chunks,
                           LAMBDA pos : InWindow(pos, chunk_center[1],
                                                 chunk_center[2], r)))

\* ConnectionData::send_chunks.  Without a dimension it returns at once.
SendChunks(c) ==
    IF c.dimension = None
    THEN [conn |-> c,
          call |-> [ran |-> FALSE, scheduled |-> None, added |-> {}]]
    ELSE SendChunksAt(c, ChunkCenter(c.position), HalfSide(c.render_distance))

\* The packets of the Play stage that the model reads from the socket.
Packet(kind, pos, dir, id, view) ==
    [kind |-> kind, pos |-> pos, dir |-> dir, teleport_id |-> id,
     view_distance |-> view]
NoPacket == Packet("none", <<0, 0, 0>>, <<0, 0>>, 0, 0)
MoveKinds == {"MovePlayerPos", "MovePlayerPosRot", "MovePlayerRot"}

PlayerMoveEvent(c) ==
    [type |-> "PlayerMoveEvent", new_position |-> c.position,
     new_direction |-> c.direction]

\* The test at the head of the three move handlers; unset counters read as
\* the default each handler passes to unwrap_or.
AwaitingTeleport(c, received_default) ==
    UnwrapOr(c.teleport_sent, 0) > UnwrapOr(c.teleport_received, received_default)

\* What a handler reports: the connection it leaves, the events it
\* dispatched and the send_chunks calls it made.
Handled(c, events, calls) == [conn |-> c, events |-> events, calls |-> calls]
AfterSendChunks(r, events) == Handled(r.conn, events, <<r.call>>)

\* One packet handled by the closure of play_phase, from the first line of
\* its match arm to the last.  A teleport id of 0 starts the new-dimension
\* flow, which is modelled by the actions below.
HandlePacket(c, pkt) ==
    CASE pkt.kind = "AcceptTeleportation" ->
           AfterSendChunks(
             SendChunks(IF pkt.teleport_id # -1
                        THEN [c EXCEPT !.teleport_received = Some(pkt.teleport_id)]
                        ELSE c),
             <<>>)
      [] pkt.kind = "MovePlayerPos" ->
           IF AwaitingTeleport(c, 1)
           THEN Handled(c, <<>>, <<>>)
           ELSE AfterSendChunks(
                  SendChunks([c EXCEPT !.position = pkt.pos]),
                  <<PlayerMoveEvent([c EXCEPT !.position = pkt.pos])>>)
      [] pkt.kind = "MovePlayerPosRot" ->
           IF AwaitingTeleport(c, 1)
           THEN Handled(c, <<>>, <<>>)
           ELSE AfterSendChunks(
                  SendChunks([c EXCEPT !.position = pkt.pos,
                                       !.direction = pkt.dir]),
                  <<PlayerMoveEvent([c EXCEPT !.position = pkt.pos,
                                              !.direction = pkt.dir])>>)
      [] pkt.kind = "MovePlayerRot" ->
           IF AwaitingTeleport(c, 10)
           THEN Handled(c, <<>>, <<>>)
           ELSE Handled([c EXCEPT !.direction = pkt.dir],
                        <<PlayerMoveEvent([c EXCEPT !.direction = pkt.dir])>>,
                        <<>>)
      [] pkt.kind = "ClientInformation" ->
           Handled([c EXCEPT !.render_distance = pkt.view_distance],
                   <<>>, <<>>)

\* What a packet found: the fields the move handlers test and write.
Snapshot(c) ==
    [position |-> c.position, direction |-> c.direction,
     teleport_sent |-> c.teleport_sent,
     teleport_received |-> c.teleport_received]

\* The chunks scheduled since position and render distance last changed.
StreamAfter(st, before, after, calls) ==
    LET base == IF after.position # before.position
                   \/ after.render_distance # before.render_distance
                THEN <<>> ELSE st
    IN  IF calls # <<>> /\ calls[1].scheduled # None
        THEN Append(base, calls[1].scheduled[1])
        ELSE base

\* The sentinel of the token and the keys a join handler may write.
NullKey == "null:null"
ServerDimensions == {"example:root"}
JoinKeys == {"example:root", "example:missing"}
HandlerPositions == {<<0, 1, 0>>}

ServerDimensionAny(key) == Some(key)

\* Server::dimension: the handle of a known key, an error otherwise; the
\* caller applies .ok().
ServerDimension(key) == IF key \in ServerDimensions THEN Some(key) ELSE None

\* How many teleports the server sends and how often the client accepts
\* teleport 0.
MaxTeleportId == 2
MaxJoins == 2

\* The teleport ids a client may acknowledge: any i32 it likes.
AcceptIds == (-2)..(MaxTeleportId + 1)

\* The task send_chunks spawns for the chunk it has marked as loaded: the
\* chunk, the centre it was chosen around, where the task is, and how many
\* of its packets it has written.
Transfer(pos, chunk_center) ==
    [pos |-> pos, center |-> chunk_center, pc |-> "queued", wrote |-> 0]

\* How many transfers are followed.
MaxTransfers == 2

\* The transfers after a handler that left the connection as `c` and made
\* the send_chunks calls `calls`.
TransfersAfter(ts, c, calls) ==
    IF calls # <<>> /\ calls[1].scheduled # None
    THEN Append(ts, Transfer(calls[1].scheduled[1], ChunkCenter(c.position)))
    ELSE ts

Idle == connStack = <<>>
Polling ==
    connStack # <<>> /\ connStack[Len(connStack)].kind = "AcceptTeleportation"

\* What the loop of connect_to_new_dimension takes input from while the
\* token is unset: it calls handle_messages and nothing else.
PollSourcesWithSocket == {"mailbox", "socket"}
PollSources == {"mailbox"}

CanTake(source) ==
    conn.open /\ (Idle \/ (Polling /\ source \in PollSources))

\* The handler closure of play_phase runs for one packet: what it does to
\* the connection.
HandlerRuns(pkt) ==
    /\ CanTake("socket")
    /\ IF pkt.kind = "AcceptTeleportation" /\ pkt.teleport_id = 0
       THEN \* connect_to_new_dimension up to its loop
            /\ conn.joins < MaxJoins
            /\ conn' = [conn EXCEPT !.joins = @ + 1]
            /\ connStack' = Append(connStack, [kind |-> "AcceptTeleportation",
                                               msg |-> NoPacket])
            /\ joinToken' = NullKey
            /\ joinTask' = [token_pending |-> TRUE, messages |-> 1]
            /\ lastPacket' = [packet |-> pkt, before |-> Snapshot(conn),
                              events |-> <<[type |-> "PlayerJoinEvent"]>>,
                              calls |-> <<>>]
            /\ UNCHANGED <<connMailbox, stream>>
       ELSE /\ \E r \in {HandlePacket(conn, pkt)} :
                 /\ conn' = r.conn
                 /\ lastPacket' = [packet |-> pkt, before |-> Snapshot(conn),
                                   events |-> r.events, calls |-> r.calls]
                 /\ stream' = StreamAfter(stream, conn, r.conn, r.calls)
            /\ UNCHANGED <<connStack, connMailbox, joinToken, joinTask>>
    /\ UNCHANGED <<sectionVars, dimVars, spawned, entityVars,
                 taskVars, stageVars, lifeVars, worldVars>>
    /\ UNCHANGED <<listVars, tableVars, regVars, itemVars, extButStream>>

\* The handler closure of play_phase runs for one packet; the transfer
\* send_chunks spawns is left to `stream`.
ConnRecvPacket(pkt) == HandlerRuns(pkt) /\ UNCHANGED streamVars

\* The same with the spawned transfer kept as a task.
ConnRecvPacketSpawn(pkt) ==
    /\ Len(transfers) < MaxTransfers
    /\ HandlerRuns(pkt)
    /\ transfers' = TransfersAfter(transfers, conn', lastPacket'.calls)
    /\ UNCHANGED writer

\* The server teleports the player: the next teleport id goes out and is
\* recorded as TELEPORT_SYNC_SENT.
ServerSendTeleport ==
    /\ conn.open /\ Idle
    /\ UnwrapOr(conn.teleport_sent, 0) < MaxTeleportId
    /\ conn' = [conn EXCEPT
                  !.teleport_sent = Some(UnwrapOr(conn.teleport_sent, 0) + 1)]
    /\ UNCHANGED <<connStack, connMailbox, joinToken, joinTask, lastPacket,
                   stream>>
    /\ UNCHANGED <<sectionVars, dimVars, spawned, entityVars,
                 taskVars, stageVars, lifeVars, actorVars,
                 worldVars>>

\* A PlayerJoinEvent handler on the task pool writes the dimension key.
JoinHandlerSetToken ==
    /\ joinTask.token_pending
    /\ \E key \in JoinKeys : joinToken' = key
    /\ joinTask' = [joinTask EXCEPT !.token_pending = FALSE]
    /\ UNCHANGED <<conn, connStack, connMailbox, lastPacket, stream>>
    /\ UNCHANGED <<sectionVars, dimVars, spawned, entityVars,
                 taskVars, stageVars, lifeVars, actorVars,
                 worldVars>>

\* The handler then sets the player's POSITION through the connection's
\* mailbox.
JoinHandlerSetPosition ==
    /\ ~joinTask.token_pending
    /\ joinTask.messages > 0
    /\ \E value \in HandlerPositions :
         connMailbox' = MailboxSend(connMailbox,
                                    [op |-> "Set", component |-> "POSITION",
                                     value |-> value])
    /\ joinTask' = [joinTask EXCEPT !.messages = @ - 1]
    /\ UNCHANGED <<conn, connStack, joinToken, lastPacket, stream>>
    /\ UNCHANGED <<sectionVars, dimVars, spawned, entityVars,
                 taskVars, stageVars, lifeVars, actorVars,
                 worldVars>>

\* handle_messages takes a message and starts its handler: called by the
\* connection's loop between packets, and by the loop of
\* connect_to_new_dimension from inside the AcceptTeleportation handler.
ConnMessageBegin ==
    /\ CanTake("mailbox")
    /\ connMailbox # <<>>
    /\ LET r == MailboxRecv(connMailbox)
       IN  /\ connMailbox' = r.rest
           /\ connStack' = Append(connStack, [kind |-> "Message", msg |-> r.msg])
    /\ UNCHANGED <<conn, joinToken, joinTask, lastPacket, stream>>
    /\ UNCHANGED <<sectionVars, dimVars, spawned, entityVars,
                 taskVars, stageVars, lifeVars, actorVars,
                 worldVars>>

\* The message's handler writes the component and returns.
ConnMessageEnd ==
    /\ connStack # <<>>
    /\ connStack[Len(connStack)].kind = "Message"
    /\ LET msg == connStack[Len(connStack)].msg
           c1  == [conn EXCEPT !.position = msg.value]
       IN  /\ conn' = c1
           /\ stream' = StreamAfter(stream, conn, c1, <<>>)
    /\ connStack' = SubSeq(connStack, 1, Len(connStack) - 1)
    /\ UNCHANGED <<connMailbox, joinToken, joinTask, lastPacket>>
    /\ UNCHANGED <<sectionVars, dimVars, spawned, entityVars,
                 taskVars, stageVars, lifeVars, actorVars,
                 worldVars>>

\* connect_to_new_dimension from the end of its loop, and the rest of the
\* AcceptTeleportation handler.  An unknown key disconnects the player and
\* the handler returns the error.  Otherwise the connection is sent one
\* AddEntity packet for every entity all_entities() returns, and the task
\* that spawns the player's entity is submitted.
FlowEnds ==
    /\ conn.open
    /\ Polling
    /\ joinToken # NullKey
    /\ LET dimension == ServerDimension(joinToken)
           c1 == [conn EXCEPT !.dimension = dimension]
       IN  IF dimension = None
           THEN /\ conn' = [c1 EXCEPT !.open = FALSE]
                /\ UNCHANGED <<spawned, lastPacket, stream, entitySends>>
           ELSE \E r \in {SendChunks(c1)} :
                    /\ conn' = r.conn
                    /\ entitySends' = Append(entitySends, DOMAIN entities)
                    /\ spawned' = Append(spawned,
                                         [kind |-> "SpawnPlayerEntity",
                                          dim |-> dimension[1]])
                    /\ lastPacket' = [lastPacket EXCEPT !.calls = <<r.call>>]
                    /\ stream' = StreamAfter(stream, conn, r.conn, <<r.call>>)
    /\ connStack' = SubSeq(connStack, 1, Len(connStack) - 1)
    /\ UNCHANGED <<connMailbox, joinToken, joinTask>>
    /\ UNCHANGED <<sectionVars, dimVars, entityVars,
                 taskVars, stageVars, lifeVars, worldVars>>
    /\ UNCHANGED <<listVars, tableVars, regVars, itemVars, extButJoin>>

\* The same as an action; the transfer send_chunks spawns is left to
\* `stream`.
JoinFinish == FlowEnds /\ UNCHANGED streamVars

\* The same with the spawned transfer kept as a task.
JoinFinishSpawn ==
    /\ Len(transfers) < MaxTransfers
    /\ FlowEnds
    /\ transfers' = TransfersAfter(transfers, conn', lastPacket'.calls)
    /\ UNCHANGED writer

\* The packets of a client that moves, turns and acknowledges teleports
\* before it has joined a dimension.
ConnPositions == {<<1, 2, 3>>, <<4, 5, 6>>}
ConnDirections == {<<90, 0>>, <<0, 45>>}
TeleportPackets ==
    {Packet("MovePlayerPos", pos, <<0, 0>>, 0, 0) : pos \in ConnPositions}
    \cup {Packet("MovePlayerPosRot", pos, dir, 0, 0) :
            pos \in ConnPositions, dir \in ConnDirections}
    \cup {Packet("MovePlayerRot", <<0, 0, 0>>, dir, 0, 0) :
            dir \in ConnDirections}
    \cup {Packet("AcceptTeleportation", <<0, 0, 0>>, <<0, 0>>, id, 0) :
            id \in AcceptIds \ {0}}

\* The packets of a client that joins a dimension and moves inside one
\* chunk.
JoinPackets ==
    {Packet("AcceptTeleportation", <<0, 0, 0>>, <<0, 0>>, 0, 0),
     Packet("MovePlayerPos", <<1, 2, 3>>, <<0, 0>>, 0, 0)}

\* The packets a client sends while it walks between chunks and changes
\* its view distance.
ChunkPositions == {<<0, 64, 0>>, <<160, 64, 0>>}
ViewDistances == {0, 2}
ChunkPackets ==
    {Packet("MovePlayerPos", pos, <<0, 0>>, 0, 0) : pos \in ChunkPositions}
    \cup {Packet("AcceptTeleportation", <<0, 0, 0>>, <<0, 0>>, id, 0) :
            id \in {0, -1}}
    \cup {Packet("ClientInformation", <<0, 0, 0>>, <<0, 0>>, 0, view) :
            view \in ViewDistances}

---------------------------------------------------------------------------
(* Task runtime and event bus                                              *)

\* The TaskThread workers Runtime::spawn_task starts on first use: one per
\* unit of available_parallelism.
Workers == {"w1", "w2"}

\* The event types dispatched here and the handler chains registered for
\* them before the server started: none, one and two handlers.
EventTypes == {"ServerTickEvent", "StartBreakBlockEvent", "BreakBlockEvent"}
EventBus ==
    [t \in EventTypes |->
        CASE t = "StartBreakBlockEvent" -> <<"on_start_break">>
          [] t = "BreakBlockEvent" -> <<"on_break_first", "on_break_second">>
          [] OTHER -> <<>>]

\* What a handler does when it runs: it returns Ok, returns Err or panics.
HandlerOutcomes == {"ok", "err", "panic"}

Event(type, id, position) == [type |-> type, id |-> id, position |-> position]
DispatchTask(event) == [kind |-> "dispatch", handler |-> "", event |-> event]
HandlerTask(handler, event) ==
    [kind |-> "handler", handler |-> handler, event |-> event]

NoTask == DispatchTask(Event("", 0, <<>>))
IdleWorker == [state |-> "idle", task |-> NoTask]

\* Runtime::spawn_task: `sender.send(..)` appends to the unbounded channel;
\* the send fails, and its error is dropped, once every receiver is gone.
SpawnTask(queue, ws, task) ==
    IF \E w \in Workers : ws[w].state # "dead" THEN Append(queue, task)
    ELSE queue

\* Server::spawn_event: the dispatch itself is a task of the pool.
SpawnEvent(queue, ws, event) == SpawnTask(queue, ws, DispatchTask(event))

\* The tasks of a list submitted one after the other.
RECURSIVE SpawnAll(_, _, _)
SpawnAll(queue, ws, tasks) ==
    IF tasks = <<>> THEN queue
    ELSE SpawnAll(SpawnTask(queue, ws, Head(tasks)), ws, Tail(tasks))

DispatchFirstOnly(bus, event) ==
    [i \in 1..(IF bus[event.type] = <<>> THEN 0 ELSE 1) |->
        HandlerTask(bus[event.type][i], event)]

\* Event::dispatch: the tasks it submits, in order: one per handler of the
\* event's own list, each with the same Arc of the payload.
Dispatch(bus, event) ==
    [i \in 1..Len(bus[event.type]) |-> HandlerTask(bus[event.type][i], event)]

\* The worker's loop `while let Ok(task) = recv.recv() { task(); }`: the
\* value a task returns is dropped; a panic unwinds the worker's thread.
WorkerAfter(outcome) == IF outcome = "panic" THEN "dead" ELSE "idle"

\* A worker takes the task at the head of the channel.
WorkerTake(w) ==
    /\ workers[w].state = "idle"
    /\ taskQueue # <<>>
    /\ workers' = [workers EXCEPT ![w] = [@ EXCEPT !.state = "running",
                                                   !.task = Head(taskQueue)]]
    /\ taskQueue' = Tail(taskQueue)
    /\ UNCHANGED <<dispatchLog, runLog, spawnLog, digLog>>
    /\ UNCHANGED <<sectionVars, dimVars, spawned, entityVars, connVars,
                   stageVars, lifeVars, actorVars,
                 worldVars>>

\* The worker runs the task it took: a dispatch submits the handlers, a
\* handler does what its author wrote, one of `outcomes`.
WorkerRun(w, outcomes) ==
    /\ workers[w].state = "running"
    /\ LET task == workers[w].task
       IN  IF task.kind = "dispatch"
           THEN /\ taskQueue' = SpawnAll(taskQueue, workers,
                                        Dispatch(EventBus, task.event))
                /\ dispatchLog' = Append(dispatchLog, task.event.id)
                /\ workers' = [workers EXCEPT ![w] =
                                 [state |-> WorkerAfter("ok"),
                                  task |-> NoTask]]
                /\ UNCHANGED runLog
           ELSE /\ \E outcome \in outcomes :
                     /\ runLog' = runLog \cup
                                    {[handler |-> task.handler,
                                      event |-> task.event.id,
                                      outcome |-> outcome]}
                     /\ workers' = [workers EXCEPT ![w] =
                                      [state |-> WorkerAfter(outcome),
                                       task |-> NoTask]]
                /\ UNCHANGED <<taskQueue, dispatchLog>>
    /\ UNCHANGED <<spawnLog, digLog>>
    /\ UNCHANGED <<sectionVars, dimVars, spawned, entityVars, connVars,
                   stageVars, lifeVars, actorVars,
                 worldVars>>

\* How many events the server's own code hands to spawn_event.
MaxEvents == 2

\* Some part of the server dispatches an event of one of the types.
ServerSpawnEvent(type) ==
    /\ Len(spawnLog) < MaxEvents
    /\ LET event == Event(type, Len(spawnLog) + 1, <<>>)
       IN  /\ taskQueue' = SpawnEvent(taskQueue, workers, event)
           /\ spawnLog' = Append(spawnLog, event)
    /\ UNCHANGED <<workers, dispatchLog, runLog, digLog>>
    /\ UNCHANGED <<sectionVars, dimVars, spawned, entityVars, connVars,
                   stageVars, lifeVars, actorVars,
                 worldVars>>

---------------------------------------------------------------------------
(* PlayerAction packets: digging                                           *)

Gamemodes == {"Survival", "Creative"}
DigStatuses == {"StartedDigging", "CancelledDigging", "FinishedDigging"}

\* The blocks a client digs at: one a producer may have written, one that
\* nothing else touches.
DigPositions == {<<0, 10, 0>>, <<5, 64, 5>>}
PlayerActionPackets ==
    [kind : {"PlayerAction"}, status : DigStatuses, position : DigPositions]

\* How many PlayerAction packets the client sends.
MaxDigs == 1

\* Player::set_gamemode: the GAMEMODE component of the connection.
PlayerSetGamemode(g) ==
    /\ conn.open /\ Idle
    /\ conn.gamemode # Some(g)
    /\ conn' = [conn EXCEPT !.gamemode = Some(g)]
    /\ UNCHANGED <<connStack, connMailbox, joinToken, joinTask, lastPacket,
                   stream>>
    /\ UNCHANGED <<sectionVars, dimVars, spawned, entityVars,
                   taskVars, stageVars, lifeVars, actorVars,
                 worldVars>>

\* Whether this status makes the handler break the block: StartedDigging
\* in creative mode, FinishedDigging in every other mode.
BreaksBlock(status, gamemode) ==
    \/ status = "StartedDigging" /\ gamemode = Some("Creative")
    \/ status = "FinishedDigging" /\ gamemode # Some("Creative")

DigRecord(pkt, c, events, block_after) ==
    [status |-> pkt.status, position |-> pkt.position,
     creative |-> c.gamemode = Some("Creative"),
     events |-> events, block_after |-> block_after]

\* The PlayerAction arm of play_phase up to the reply of set_block: it
\* dispatches StartBreakBlockEvent, then asks the dimension to write air
\* and waits; `dimension.as_ref().unwrap()` panics without a dimension.
ConnRecvPlayerAction(pkt) ==
    /\ CanTake("socket")
    /\ Len(digLog) < MaxDigs
    /\ LET start == Event("StartBreakBlockEvent", Len(spawnLog) + 1,
                          pkt.position)
           started == pkt.status = "StartedDigging"
           events == IF started THEN <<start>> ELSE <<>>
           queue1 == IF started THEN SpawnEvent(taskQueue, workers, start)
                     ELSE taskQueue
       IN  /\ taskQueue' = queue1
           /\ spawnLog' = spawnLog \o events
           /\ IF ~BreaksBlock(pkt.status, conn.gamemode)
              THEN /\ digLog' = Append(digLog,
                                       DigRecord(pkt, conn, events, None))
                   /\ UNCHANGED <<conn, connStack, dimMailbox>>
              ELSE IF conn.dimension = None
              THEN /\ conn' = [conn EXCEPT !.open = FALSE]
                   /\ UNCHANGED <<connStack, dimMailbox, digLog>>
              ELSE /\ dimMailbox' =
                        MailboxSend(dimMailbox,
                                    [op |-> "SetBlock", from |-> "conn",
                                     seq |-> Len(digLog) + 1,
                                     position |-> pkt.position,
                                     block_state |-> NewBlockState("air")])
                   /\ connStack' = Append(connStack,
                                          [kind |-> "PlayerAction", msg |-> pkt,
                                           seq |-> Len(digLog) + 1,
                                           events |-> events])
                   /\ UNCHANGED <<conn, digLog>>
    /\ UNCHANGED <<workers, dispatchLog, runLog>>
    /\ UNCHANGED <<chunks, sentLog, handledLog, spawned>>
    /\ UNCHANGED <<connMailbox, joinToken, joinTask, lastPacket, stream>>
    /\ UNCHANGED <<sectionVars, entityVars, stageVars, lifeVars, actorVars,
                 worldVars>>

\* The rest of the arm once the dimension has replied: it dispatches
\* BreakBlockEvent and returns.
ConnPlayerActionEnd ==
    /\ connStack # <<>>
    /\ LET frame == connStack[Len(connStack)]
       IN  /\ frame.kind = "PlayerAction"
           /\ \E i \in 1..Len(handledLog) : handledLog[i] = <<"conn", frame.seq>>
           /\ LET break == Event("BreakBlockEvent", Len(spawnLog) + 1,
                                 frame.msg.position)
              IN  /\ taskQueue' = SpawnEvent(taskQueue, workers, break)
                  /\ spawnLog' = Append(spawnLog, break)
                  /\ digLog' = Append(digLog,
                        DigRecord(frame.msg, conn, Append(frame.events, break),
                                  Some(DimGetBlock(chunks, frame.msg.position)[1])))
    /\ connStack' = SubSeq(connStack, 1, Len(connStack) - 1)
    /\ UNCHANGED <<workers, dispatchLog, runLog>>
    /\ UNCHANGED <<conn, connMailbox, joinToken, joinTask, lastPacket, stream>>
    /\ UNCHANGED <<sectionVars, dimVars, spawned, entityVars, stageVars, lifeVars, actorVars,
                 worldVars>>

---------------------------------------------------------------------------
(* Calls with coordinates outside a section, and calls on the dimension's  *)
(* data and on a chunk                                                     *)

InSection(pos) == \A i \in 1..3 : pos[i] \in 0..15

\* What the access `blocks.get(index_from_pos(pos)).unwrap()` can do.  A
\* negative coordinate became a usize just below 2^64: a build with overflow
\* checks panics in index_from_pos or in the unwrap; a build without them
\* wraps, IndexFromPos being the wrapped index, and panics in the unwrap
\* unless that index is below ArrLen.  Without a negative coordinate nothing
\* overflows.
SectionAccess(pos) ==
    LET wraps == ArrHas(EmptyArr, IndexFromPos(pos))
    IN  IF \E i \in 1..3 : pos[i] < 0
        THEN {"panic"} \cup (IF wraps THEN {"ok"} ELSE {})
        ELSE IF wraps THEN {"ok"} ELSE {"panic"}

\* The same for Chunk::set_block_at, set_block_at_by_id and get_block_at: a
\* y with no section is skipped before the array is touched.
ChunkAccess(c, pos) ==
    IF SectionSlot(c, DivEuclid(pos[2], 16)) = 0 THEN {"ok"}
    ELSE SectionAccess(WithY(pos, RemEuclid(pos[2], 16)))

\* The chunk and the position in it that DimensionData::set_block and
\* get_block compute.
ChunkPosOf(position) ==
    <<TruncDiv(position[1], 16), TruncDiv(position[3], 16)>>
PosInChunk(position) ==
    <<TruncRem(position[1], 16), position[2], TruncRem(position[3], 16)>>

\* DimensionData::get_chunk_section, position in chunk coordinates:
\* <<outcome, section, chunks, events>>.
DimGetChunkSection(cs, position) ==
    LET chunk_pos == <<position[1], position[3]>>
        init == TryInitializeChunk(cs, chunk_pos)
        slot == SectionSlot(init[1][chunk_pos], TruncDiv(position[2], 16))
    IN  IF slot = 0 THEN <<"panic", None, init[1], init[2]>>
        ELSE <<"ok", Some(init[1][chunk_pos].sections[slot]), init[1], init[2]>>

\* The calls made on the dimension and how many of them.
WorldPositions == {<<0, 10, 0>>, <<-1, 10, 0>>, <<-20, 0, -20>>, <<800, 10, 800>>}
WorldBlocks == {NewBlockState("stone"), NewBlockState("grass_block")}
SectionCoords == {<<0, 0, 0>>, <<50, 0, 50>>}
MaxCalls == 3

Call(op, pos, block, outcome, before, result, events) ==
    [n |-> lastCall.n + 1, op |-> op, pos |-> pos, block |-> block,
     outcome |-> outcome, before |-> before, result |-> result,
     events |-> events]

\* The dimension's thread handles one call; a panic ends the thread.
CanCall == panics = 0 /\ lastCall.n < MaxCalls

\* DimensionData::set_block
DimCallSetBlock ==
    /\ CanCall
    /\ \E position \in WorldPositions, block \in WorldBlocks :
         LET init == TryInitializeChunk(chunks, ChunkPosOf(position))
             res == DimSetBlock(chunks, position, block)
         IN  \E outcome \in ChunkAccess(init[1][ChunkPosOf(position)],
                                        PosInChunk(position)) :
               LET done == IF outcome = "ok" THEN res ELSE init
               IN  /\ chunks' = done[1]
                   /\ spawned' = spawned \o done[2]
                   /\ panics' = IF outcome = "ok" THEN panics ELSE panics + 1
                   /\ lastCall' = Call("set_block", position, block, outcome,
                                       chunks, None, done[2])
    /\ UNCHANGED <<dimMailbox, sentLog, handledLog, genChunk>>
    /\ UNCHANGED <<sectionVars, entityVars, connVars, taskVars, stageVars,
                   lifeVars, actorVars>>

\* DimensionData::get_block
DimCallGetBlock ==
    /\ CanCall
    /\ \E position \in WorldPositions :
         LET init == TryInitializeChunk(chunks, ChunkPosOf(position))
             res == DimGetBlock(chunks, position)
         IN  \E outcome \in ChunkAccess(init[1][ChunkPosOf(position)],
                                        PosInChunk(position)) :
               /\ chunks' = init[1]
               /\ spawned' = spawned \o init[2]
               /\ panics' = IF outcome = "ok" THEN panics ELSE panics + 1
               /\ lastCall' = Call("get_block", position, NewBlockState("air"),
                                   outcome, chunks,
                                   IF outcome = "ok" THEN Some(res[1]) ELSE None,
                                   init[2])
    /\ UNCHANGED <<dimMailbox, sentLog, handledLog, genChunk>>
    /\ UNCHANGED <<sectionVars, entityVars, connVars, taskVars, stageVars,
                   lifeVars, actorVars>>

\* DimensionData::get_chunk_section
DimCallGetChunkSection ==
    /\ CanCall
    /\ \E position \in SectionCoords :
         LET res == DimGetChunkSection(chunks, position)
         IN  /\ chunks' = res[3]
             /\ spawned' = spawned \o res[4]
             /\ panics' = IF res[1] = "ok" THEN panics ELSE panics + 1
             /\ lastCall' = Call("get_chunk_section", position,
                                 NewBlockState("air"), res[1], chunks, res[2],
                                 res[4])
    /\ UNCHANGED <<dimMailbox, sentLog, handledLog, genChunk>>
    /\ UNCHANGED <<sectionVars, entityVars, connVars, taskVars, stageVars,
                   lifeVars, actorVars>>

\* Local positions handed to a section: inside it, one past its end on x
\* and on y, and one before its start on x.
LocalPositions ==
    {<<0, 0, 1>>, <<3, 15, 0>>, <<16, 0, 0>>, <<0, 16, 0>>, <<-1, 0, 1>>}
LocalBlocks ==
    {NewBlockState("air"), NewBlockState("stone"),
     [name |-> "chest", custom_data |-> "nbtA"]}

\* ChunkSection::set_block_at with any position
SectionCallSetBlockAt ==
    /\ CanCall
    /\ \E pos \in LocalPositions, block \in LocalBlocks :
         \E outcome \in SectionAccess(pos) :
            /\ section' = IF outcome = "ok"
                          THEN SectionSetBlockAt(section, pos, block)
                          ELSE section
            /\ panics' = IF outcome = "ok" THEN panics ELSE panics + 1
            /\ lastCall' = Call("section.set_block_at", pos, block, outcome,
                                section, None, <<>>)
    /\ UNCHANGED <<dimVars, spawned, entityVars, connVars, taskVars,
                   stageVars, lifeVars, actorVars, genChunk>>

\* ChunkSection::set_block_at_by_id with any position
SectionCallSetBlockAtById ==
    /\ CanCall
    /\ \E pos \in LocalPositions, id \in 0..MaxBlockId :
         \E outcome \in SectionAccess(pos) :
            /\ section' = IF outcome = "ok"
                          THEN SectionSetBlockAtById(section, pos, id)
                          ELSE section
            /\ panics' = IF outcome = "ok" THEN panics ELSE panics + 1
            /\ lastCall' = Call("section.set_block_at_by_id", pos,
                                FromProtocolId(id), outcome, section, None,
                                <<>>)
    /\ UNCHANGED <<dimVars, spawned, entityVars, connVars, taskVars,
                   stageVars, lifeVars, actorVars, genChunk>>

\* A chunk generator writes into its chunk, at positions inside it.
GenPositions == {<<0, 0, 0>>, <<1, 70, 1>>, <<15, -64, 15>>}
GenBlocks == {NewBlockState(name) : name \in {"air", "stone", "chest"}}

\* Chunk::set_block_at
GenSetBlockAt ==
    /\ \E pos \in GenPositions, block \in GenBlocks :
         genChunk' = ChunkSetBlockAt(genChunk, pos, block)
    /\ UNCHANGED <<lastCall, panics>>
    /\ UNCHANGED <<sectionVars, dimVars, spawned, entityVars, connVars,
                   taskVars, stageVars, lifeVars, actorVars>>

\* Chunk::set_block_at_by_id
GenSetBlockAtById ==
    /\ \E pos \in GenPositions, id \in 0..MaxBlockId :
         genChunk' = ChunkSetBlockAtById(genChunk, pos, id)
    /\ UNCHANGED <<lastCall, panics>>
    /\ UNCHANGED <<sectionVars, dimVars, spawned, entityVars, connVars,
                   taskVars, stageVars, lifeVars, actorVars>>

---------------------------------------------------------------------------
(* Protocol stage of a connection                                          *)

\* The stage changes the handlers of the stages before Play make: a
\* Handshake packet asks for Status or Login, Login ends in Configuration,
\* the client's acknowledgement of "finish configuration" enters Play.
StageChanges ==
    {<<"Handshake", "Status">>, <<"Handshake", "Login">>,
     <<"Login", "Configuration">>, <<"Configuration", "Play">>}

\* A handler of a stage before Play moves the connection on.
StageAdvance(from, to) ==
    /\ conn.open
    /\ stage = from
    /\ stage' = to
    /\ UNCHANGED <<sectionVars, dimVars, spawned, entityVars, connVars,
                   taskVars, lifeVars, actorVars, worldVars>>

\* The connection is closed: after the Status exchange, on a protocol error
\* or by the client.
ConnDisconnect ==
    /\ conn.open /\ Idle
    /\ conn' = [conn EXCEPT !.open = FALSE]
    /\ UNCHANGED <<connStack, connMailbox, joinToken, joinTask, lastPacket,
                   stream>>
    /\ UNCHANGED <<sectionVars, dimVars, spawned, entityVars,
                   taskVars, stageVars, lifeVars, actorVars, worldVars>>

\* play_phase handles a packet: the connection is in the Play stage.
PlayRecvPacket(pkt) == stage = "Play" /\ ConnRecvPacket(pkt)

---------------------------------------------------------------------------
(* Actors, their handles and the end of their event loops                  *)

\* A dimension, whose DimensionData keeps the Sender of its own channel,
\* and a connection, whose ConnectionData keeps a weak one that it upgrades
\* when it needs a Player handle.
Actors == {"dimension", "connection"}
OwnSender == [a \in Actors |-> IF a = "dimension" THEN "strong" ELSE "weak"]

\* How many handles of a kind there are at most.
MaxHandles == 3

\* The handles that exist once the actor's thread is spawned: the
\* dimension's is the weak one create_dimension files and returns, the
\* connection's the strong one in the server's list.
FirstHandles ==
    [a \in Actors |-> IF a = "dimension" THEN [strong |-> 0, weak |-> 1]
                      ELSE [strong |-> 1, weak |-> 0]]

\* The senders that keep the actor's channel connected: the strong handles,
\* and the actor's own sender while its data is alive on its thread.
Senders(a) ==
    actors[a].strong
    + (IF OwnSender[a] = "strong" /\ actors[a].state = "running" THEN 1 ELSE 0)

\* recv() fails with Disconnected when no sender is left.
Disconnected(a) == Senders(a) = 0

\* create_dimension, and the accept of a connection: the actor's data is
\* built and its event loop starts on a thread of its own.
ActorSpawn(a) ==
    /\ actors[a].state = "none"
    /\ actors' = [actors EXCEPT ![a] =
                    [state |-> "running", strong |-> FirstHandles[a].strong,
                     weak |-> FirstHandles[a].weak]]
    /\ UNCHANGED <<sectionVars, dimVars, spawned, entityVars, connVars,
                   taskVars, stageVars, worldVars, actorVars>>

\* A handle is cloned, or a weak handle is upgraded, which succeeds while a
\* sender is left; a handle is dropped.
HandleStep(a, kind, by) ==
    /\ actors[a].state # "none"
    /\ actors[a][kind] + by \in 0..MaxHandles
    /\ by = 1 => IF kind = "weak" THEN actors[a].strong + actors[a].weak > 0
                 ELSE ~Disconnected(a)
    /\ actors' = [actors EXCEPT ![a][kind] = @ + by]
    /\ UNCHANGED <<sectionVars, dimVars, spawned, entityVars, connVars,
                   taskVars, stageVars, worldVars, actorVars>>

\* The event loop finds its channel disconnected and returns: the thread
\* ends and the actor's data, its own sender included, is dropped.
ActorExit(a) ==
    /\ actors[a].state = "running"
    /\ Disconnected(a)
    /\ actors' = [actors EXCEPT ![a].state = "exited"]
    /\ UNCHANGED <<sectionVars, dimVars, spawned, entityVars, connVars,
                   taskVars, stageVars, worldVars, actorVars>>

---------------------------------------------------------------------------
(* The server's connection list.  networking_loop accepts sockets and      *)
(* hands each new connection to the server actor; handle_loops drops the   *)
(* connections whose termination signal has arrived, answers the requests  *)
(* in the mailbox and ticks.  The connection's side of the signal (it is   *)
(* sent when the connection's thread ends) and handle_messages come from   *)
(* the actor macros.                                                       *)

\* How many sockets networking_loop accepts, and how many ticks fall due.
MaxConns == 1
MaxTicks == 1

ConnIds == 1..MaxConns
PeerUuid(c) == <<"uuid", c>>
QueryUuids == {PeerUuid(c) : c \in ConnIds} \cup {<<"uuid", 0>>}

\* What holders of a Server handle may ask between two runs of
\* handle_messages: nothing, or one of the three queries.
Queries ==
    {<<>>} \cup {<<[kind |-> k, arg |-> <<>>]>> :
                    k \in {"GetConnections", "GetPlayers"}}
           \cup {<<[kind |-> "GetPlayerByUuid", arg |-> u]>> : u \in QueryUuids}

ServerMessage(kind, arg) == [kind |-> kind, arg |-> arg]
Reply(kind, arg, outcome, value) ==
    [kind |-> kind, arg |-> arg, outcome |-> outcome, value |-> value]

\* `connection._signal.try_recv()`: Ok when a signal is waiting.
TryRecvIsErr(peer) == peer.signal = 0

RetainReceived(conns, ps) ==
    SelectSeq(conns, LAMBDA c : ~TryRecvIsErr(ps[c]))

\* `self.connections.retain_mut(|c| c._signal.try_recv().is_err())`
Retain(conns, ps) == SelectSeq(conns, LAMBDA c : TryRecvIsErr(ps[c]))

\* `*conn.stage.lock().unwrap() == Stage::Play`: the stage cell is shared
\* with the connection and outlives its thread.
InPlay(ps, c) == ps[c].stage = "Play"

\* ServerData::connections
GetConnections(conns) == Reply("GetConnections", <<>>, "Ok", conns)

GetPlayersListed(conns, ps) == Reply("GetPlayers", <<>>, "Ok", conns)

\* ServerData::players
GetPlayers(conns, ps) ==
    Reply("GetPlayers", <<>>, "Ok", SelectSeq(conns, LAMBDA c : InPlay(ps, c)))

\* ServerData::player: `conn.player.get(UUID) == Ok(player)` and
\* `conn.player.stage() == Ok(Stage::Play)` are requests to the connection,
\* which answers while its thread runs.
GetPlayerByUuid(conns, ps, uuid) ==
    LET found == SelectSeq(conns, LAMBDA c : /\ ps[c].state = "running"
                                              /\ PeerUuid(c) = uuid
                                              /\ InPlay(ps, c))
    IN  IF found = <<>> THEN Reply("GetPlayerByUuid", uuid, "BadRequest", <<>>)
        ELSE Reply("GetPlayerByUuid", uuid, "Ok", <<Head(found)>>)

\* ServerData::spawn_connection_internal and the three queries, applied to
\* the messages of `queue` in order.
RECURSIVE HandleMessages(_, _, _, _)
HandleMessages(conns, ps, queue, out) ==
    IF queue = <<>> THEN [connections |-> conns, replies |-> out]
    ELSE LET msg == Head(queue)
         IN  CASE msg.kind = "SpawnConnectionInternal" ->
                    HandleMessages(Append(conns, msg.arg), ps, Tail(queue),
                                   Append(out, Reply(msg.kind, msg.arg,
                                                     "Ok", <<>>)))
               [] msg.kind = "GetConnections" ->
                    HandleMessages(conns, ps, Tail(queue),
                                   Append(out, GetConnections(conns)))
               [] msg.kind = "GetPlayers" ->
                    HandleMessages(conns, ps, Tail(queue),
                                   Append(out, GetPlayers(conns, ps)))
               [] OTHER ->
                    HandleMessages(conns, ps, Tail(queue),
                                   Append(out, GetPlayerByUuid(conns, ps,
                                                               msg.arg)))

UpdateComponentsTask(c) ==
    [kind |-> "task", handler |-> "update_components",
     event |-> Event("", c, <<>>)]

\* networking_loop: `listener.accept()` gives a socket; the connection
\* starts in Handshake and is handed to the server.
NetworkingAccept(c) ==
    /\ peers[c].state = "none"
    /\ \A d \in ConnIds : d < c => peers[d].state # "none"
    /\ peers' = [peers EXCEPT ![c] = [state |-> "running",
                                      stage |-> "Handshake", signal |-> 0]]
    /\ srvQueue' = Append(srvQueue,
                          ServerMessage("SpawnConnectionInternal", c))
    /\ UNCHANGED <<connections, replies, srvLoop>>
    /\ UNCHANGED <<sectionVars, dimVars, spawned, entityVars, connVars,
                   taskVars, stageVars, lifeVars, worldVars,
                   tableVars, regVars, itemVars, extVars>>

\* The connection's thread moves the connection to its next stage.
PeerAdvance(c, from, to) ==
    /\ peers[c].state = "running"
    /\ peers[c].stage = from
    /\ peers' = [peers EXCEPT ![c].stage = to]
    /\ UNCHANGED <<connections, srvQueue, replies, srvLoop>>
    /\ UNCHANGED <<sectionVars, dimVars, spawned, entityVars, connVars,
                   taskVars, stageVars, lifeVars, worldVars,
                   tableVars, regVars, itemVars, extVars>>

\* The connection's thread ends and sends the termination signal.
PeerTerminate(c) ==
    /\ peers[c].state = "running"
    /\ peers' = [peers EXCEPT ![c].state = "ended", ![c].signal = 1]
    /\ UNCHANGED <<connections, srvQueue, replies, srvLoop>>
    /\ UNCHANGED <<sectionVars, dimVars, spawned, entityVars, connVars,
                   taskVars, stageVars, lifeVars, worldVars,
                   tableVars, regVars, itemVars, extVars>>

\* handle_loops, first statement: the connections whose signal has arrived
\* are dropped, and the signal is consumed with them.
ServerRetain ==
    /\ srvLoop.pc = "retain"
    /\ connections' = Retain(connections, peers)
    /\ peers' = [c \in ConnIds |->
                   IF Contains(connections, c) /\ ~TryRecvIsErr(peers[c])
                   THEN [peers[c] EXCEPT !.signal = 0] ELSE peers[c]]
    /\ srvLoop' = [srvLoop EXCEPT !.pc = "messages"]
    /\ replies' = <<>>
    /\ UNCHANGED srvQueue
    /\ UNCHANGED <<sectionVars, dimVars, spawned, entityVars, connVars,
                   taskVars, stageVars, lifeVars, worldVars,
                   tableVars, regVars, itemVars, extVars>>

\* handle_loops, second statement: handle_messages answers the requests
\* that have arrived: the first `n` of the connections networking_loop has
\* handed over, and the queries `asked` that holders of a Server handle
\* have sent in the meantime.
ServerHandleMessages(n, asked) ==
    /\ srvLoop.pc = "messages"
    /\ n \in 0..Len(srvQueue)
    /\ \E r \in {HandleMessages(connections, peers,
                                SubSeq(srvQueue, 1, n) \o asked, <<>>)} :
          /\ connections' = r.connections
          /\ replies' = r.replies
    /\ srvQueue' = SubSeq(srvQueue, n + 1, Len(srvQueue))
    /\ srvLoop' = [srvLoop EXCEPT !.pc = "tick"]
    /\ UNCHANGED peers
    /\ UNCHANGED <<sectionVars, dimVars, spawned, entityVars, connVars,
                   taskVars, stageVars, lifeVars, worldVars,
                   tableVars, regVars, itemVars, extVars>>

\* handle_loops, the rest of the body: when 50 ms have passed (`due`) the
\* ServerTickEvent is spawned, and update_components for every connection
\* in Play.
ServerTick(due) ==
    /\ srvLoop.pc = "tick"
    /\ IF due /\ srvLoop.ticks < MaxTicks
       THEN /\ LET event == Event("ServerTickEvent", Len(spawnLog) + 1, <<>>)
                   inPlay == SelectSeq(connections,
                                       LAMBDA c : InPlay(peers, c))
               IN  /\ taskQueue' =
                        SpawnAll(SpawnEvent(taskQueue, workers, event),
                                 workers,
                                 [i \in 1..Len(inPlay) |->
                                     UpdateComponentsTask(inPlay[i])])
                   /\ spawnLog' = Append(spawnLog, event)
            /\ srvLoop' = [srvLoop EXCEPT !.pc = "retain", !.ticks = @ + 1]
       ELSE /\ srvLoop' = [srvLoop EXCEPT !.pc = "retain"]
            /\ UNCHANGED <<taskQueue, spawnLog>>
    /\ UNCHANGED <<workers, dispatchLog, runLog, digLog>>
    /\ UNCHANGED <<connections, peers, srvQueue, replies>>
    /\ UNCHANGED <<sectionVars, dimVars, spawned, entityVars, connVars,
                   stageVars, lifeVars, worldVars,
                   tableVars, regVars, itemVars, extVars>>

---------------------------------------------------------------------------
(* The entity table of a dimension: DimensionData.entities, keyed by UUID. *)
(* The player's record is inserted by spawn_player_entity, which the       *)
(* new-dimension flow requests through a task of the pool.                 *)

PlayerUuid == "uuid-player"
TableUuids == {PlayerUuid, "uuid-stranger"}
EntityPositions == {<<1, 64, 1>>}
EntityHeadings == {<<90, 0>>}
EntityOps ==
    {"RemoveEntity", "EntityId", "EntityType", "EntityPos", "TeleportEntity",
     "RotateEntity"}

EntityData(entity_type, uuid, id, position, heading) ==
    [entity_type |-> entity_type, uuid |-> uuid, id |-> id,
     position |-> position, heading |-> heading]

\* What a request to the dimension gives: the ActorResult, the table
\* afterwards and the broadcasts handed to Runtime::spawn.
Answer(outcome, value, es, tasks) ==
    [outcome |-> outcome, value |-> value, entities |-> es, tasks |-> tasks]

\* DimensionData::spawn_player_entity
SpawnPlayerEntity(es, uuid, id) ==
    Answer("Ok", <<uuid>>,
            MapInsert(es, uuid, EntityData("minecraft:player", uuid, id,
                                           <<0, 0, 0>>, <<0, 0>>)),
            <<"AddEntity">>)

\* DimensionData::remove_entity (`self.server` is Some from new() on)
RemoveEntity(es, uuid) ==
    IF uuid \in DOMAIN es
    THEN Answer("Ok", <<>>, MapRemove(es, uuid), <<"RemoveEntities">>)
    ELSE Answer("Ok", <<>>, es, <<>>)

\* `self.entities.get(&uuid).ok_or(ActorError::ActorDoesNotExist)`
EntityGet(es, uuid) ==
    IF uuid \in DOMAIN es THEN "Ok" ELSE "ActorDoesNotExist"

\* DimensionData::entity_id, entity_type, entity_pos
EntityId(es, uuid) ==
    Answer(EntityGet(es, uuid),
            IF uuid \in DOMAIN es THEN <<es[uuid].id>> ELSE <<>>, es, <<>>)
EntityType(es, uuid) ==
    Answer(EntityGet(es, uuid),
            IF uuid \in DOMAIN es THEN <<es[uuid].entity_type>> ELSE <<>>,
            es, <<>>)
EntityPos(es, uuid) ==
    Answer(EntityGet(es, uuid),
            IF uuid \in DOMAIN es
            THEN <<es[uuid].position, es[uuid].heading>> ELSE <<>>, es, <<>>)

\* DimensionData::teleport_entity
TeleportEntity(es, uuid, position) ==
    IF uuid \in DOMAIN es
    THEN Answer("Ok", <<>>, [es EXCEPT ![uuid].position = position],
                 <<"EntityPositionSync">>)
    ELSE Answer("Ok", <<>>, es, <<>>)

\* DimensionData::rotate_entity
RotateEntity(es, uuid, heading) ==
    IF uuid \in DOMAIN es
    THEN Answer("Ok", <<>>, [es EXCEPT ![uuid].heading = heading],
                 <<"EntityPositionSync">>)
    ELSE Answer("Ok", <<>>, es, <<>>)

EntityRequest(es, op, uuid, position, heading) ==
    CASE op = "RemoveEntity" -> RemoveEntity(es, uuid)
      [] op = "EntityId" -> EntityId(es, uuid)
      [] op = "EntityType" -> EntityType(es, uuid)
      [] op = "EntityPos" -> EntityPos(es, uuid)
      [] op = "TeleportEntity" -> TeleportEntity(es, uuid, position)
      [] OTHER -> RotateEntity(es, uuid, heading)

\* The spawn_player_entity tasks the new-dimension flow has submitted.
PlayerSpawnTasks ==
    Len(SelectSeq(spawned, LAMBDA t : t.kind = "SpawnPlayerEntity"))

\* The task `dim.spawn_player_entity(uuid, entity_id)` runs on the pool and
\* the dimension handles its request.
DimSpawnPlayerEntity ==
    /\ playerSpawns < PlayerSpawnTasks
    /\ \E r \in {SpawnPlayerEntity(entities, PlayerUuid, 1)} :
          /\ entities' = r.entities
          /\ entityCall' = [op |-> "SpawnPlayerEntity", uuid |-> PlayerUuid,
                            before |-> entities, outcome |-> r.outcome,
                            value |-> r.value, tasks |-> r.tasks]
    /\ playerSpawns' = playerSpawns + 1
    /\ UNCHANGED <<listVars, regVars, itemVars, extVars>>
    /\ UNCHANGED <<sectionVars, dimVars, spawned, entityVars, connVars,
                   taskVars, stageVars, lifeVars, worldVars>>

\* A holder of an Entity or Dimension handle makes a request about `uuid`,
\* and the dimension handles it.
DimEntityCall(op, uuid, position, heading) ==
    /\ \E r \in {EntityRequest(entities, op, uuid, position, heading)} :
          /\ entities' = r.entities
          /\ entityCall' = [op |-> op, uuid |-> uuid, before |-> entities,
                            outcome |-> r.outcome, value |-> r.value,
                            tasks |-> r.tasks]
    /\ UNCHANGED playerSpawns
    /\ UNCHANGED <<listVars, regVars, itemVars, extVars>>
    /\ UNCHANGED <<sectionVars, dimVars, spawned, entityVars, connVars,
                   taskVars, stageVars, lifeVars, worldVars>>

---------------------------------------------------------------------------
(* The server's dimensions: ServerData.dimensions maps an identifier to    *)
(* the handle of a Dimension actor.  The container keeps one handle per    *)
(* identifier.  A dimension's thread runs DimensionData::event_loop with   *)
(* the data create_dimension built, which owns a sender of its own         *)
(* channel.                                                                *)

\* How many times create_dimension is called.
MaxDims == 3

DimNames == {"example:root", "example:other"}
DimKeys == DimNames \cup {"example:missing"}
DimTypes == {"minecraft:overworld", "minecraft:the_nether"}

\* ServerData::dimension
GetDimension(dims, key) ==
    IF key \in DOMAIN dims
    THEN [outcome |-> "Ok", value |-> <<dims[key]>>]
    ELSE [outcome |-> "IndexOutOfBounds", value |-> <<>>]

\* ServerData::create_dimension: the data is built, its handle is stored
\* under the name and the thread of the new actor is started.
CreateDimension(dims, threads, name, dim_type) ==
    [dimensions |-> MapInsert(dims, name, Len(threads) + 1),
     threads |-> Append(threads, [name |-> name, dim_type |-> dim_type])]

\* A handler calls Server::create_dimension and the server handles it.
ServerCreateDimension(name, dim_type) ==
    /\ Len(dimThreads) < MaxDims
    /\ \E r \in {CreateDimension(dimensions, dimThreads, name, dim_type)} :
          /\ dimensions' = r.dimensions
          /\ dimThreads' = r.threads
          /\ regCall' = [op |-> "CreateDimension", key |-> name,
                         outcome |-> "Ok", value |-> <<r.dimensions[name]>>,
                         before |-> <<dimensions, dimThreads>>]
    /\ LET event == Event("DimensionCreateEvent", Len(spawnLog) + 1, <<>>)
       IN  /\ taskQueue' = SpawnEvent(taskQueue, workers, event)
           /\ spawnLog' = Append(spawnLog, event)
    /\ UNCHANGED <<workers, dispatchLog, runLog, digLog>>
    /\ UNCHANGED <<listVars, tableVars, itemVars, extVars>>
    /\ UNCHANGED <<sectionVars, dimVars, spawned, entityVars, connVars,
                   stageVars, lifeVars, worldVars>>

\* A handler calls Server::dimension and the server handles it.
ServerGetDimension(key) ==
    /\ \E r \in {GetDimension(dimensions, key)} :
          regCall' = [op |-> "GetDimension", key |-> key,
                      outcome |-> r.outcome, value |-> r.value,
                      before |-> <<dimensions, dimThreads>>]
    /\ UNCHANGED <<dimensions, dimThreads>>
    /\ UNCHANGED <<listVars, tableVars, itemVars, extVars>>
    /\ UNCHANGED <<sectionVars, dimVars, spawned, entityVars, connVars,
                   taskVars, stageVars, lifeVars, worldVars>>

---------------------------------------------------------------------------
(* The sections of a chunk.  A chunk is built by Chunk::new, which         *)
(* try_initialize_chunk calls with the section bounds of the dimension     *)
(* type and which is public to generators and structure code.              *)

\* The bounds Chunk::new is called with: a world without depth, one that
\* starts below zero, no section at all, and a maximum below the minimum.
SectionBounds == {<<0, 16>>, <<-1, 1>>, <<2, 2>>, <<2, 1>>}

\* Chunk::new: `Vec::with_capacity(total_sections as usize)` panics with a
\* capacity overflow when total_sections is negative.
ChunkNewPanics(min_sections, max_sections) ==
    max_sections + (-min_sections) < 0

\* A caller builds a chunk with Chunk::new.
GenNew(min_sections, max_sections) ==
    /\ panics = 0
    /\ IF ChunkNewPanics(min_sections, max_sections)
       THEN /\ panics' = panics + 1
            /\ UNCHANGED genChunk
       ELSE /\ genChunk' = ChunkNew(min_sections, max_sections)
            /\ UNCHANGED panics
    /\ UNCHANGED lastCall
    /\ UNCHANGED <<sectionVars, dimVars, spawned, entityVars, connVars,
                   taskVars, stageVars, lifeVars, actorVars>>

\* try_initialize_chunk builds the chunk of a position that has none and
\* hands it to the generator.
GenLazyInit(pos) ==
    /\ genChunk' = TryInitializeChunk(EmptyMap, pos)[1][pos]
    /\ UNCHANGED <<lastCall, panics>>
    /\ UNCHANGED <<sectionVars, dimVars, spawned, entityVars, connVars,
                   taskVars, stageVars, lifeVars, actorVars>>

---------------------------------------------------------------------------
(* Use-item-on.  The arm reads the stack in the held slot, builds a block  *)
(* state from its kind, hands the set_block call to the task pool,         *)
(* updates the stack and dispatches one event.  ItemStack, the inventory   *)
(* and BlockState::id_is_valid come from modules outside this source tree: *)
(* a stack is its kind and its count, a state is valid when its name is in *)
(* the block registry.                                                     *)

\* How many UseItemOn packets the client sends.
MaxUses == 2

ItemStack(kind, count) == [kind |-> kind, count |-> count]
ItemAir == ItemStack("air", 0)
CreativeStacks ==
    {ItemStack("stone", 2), ItemStack("stone", 1),
     ItemStack("diamond_sword", 1)}

\* The blocks the client clicks on, the top block of the world among them,
\* and the faces it clicks.
UseTargets == {<<0, 64, 0>>, <<0, 319, 0>>}
UseFaces == {"Up"}

\* `match packet.face`
FaceOffset(face) ==
    CASE face = "Down" -> <<0, -1, 0>>
      [] face = "Up" -> <<0, 1, 0>>
      [] face = "North" -> <<0, 0, -1>>
      [] face = "South" -> <<0, 0, 1>>
      [] face = "West" -> <<-1, 0, 0>>
      [] OTHER -> <<1, 0, 0>>

FinalPos(target, face) ==
    <<target[1] + FaceOffset(face)[1], target[2] + FaceOffset(face)[2],
      target[3] + FaceOffset(face)[3]>>

\* BlockState::id_is_valid
IdIsValid(state) == state.name \in BlockNames

\* The stack after the arm: one less, air when the count was at most one;
\* untouched when the state has no valid id.
HeldAfterUse(held, state) ==
    IF ~IdIsValid(state) THEN held
    ELSE IF held.count <= 1 THEN ItemAir
    ELSE ItemStack(held.kind, held.count - 1)

\* The event the arm hands to spawn_event.
UseEvent(state, final_pos) ==
    IF IdIsValid(state)
    THEN [type |-> "PlaceBlockEvent", position |-> final_pos, block |-> state]
    ELSE [type |-> "RightClickEvent", position |-> <<>>, block |-> state]

\* The task `dim.set_block(final_pos, state_clone)` of the arm.
SetBlockTask(seq, final_pos, state) ==
    [kind |-> "set_block", handler |-> "",
     event |-> [type |-> "", id |-> seq, position |-> final_pos,
                block |-> state]]

\* The handlers registered for the events of the arm: on_place answers a
\* PlaceBlockEvent by writing air at the event's position.
UseBus ==
    [t \in {"PlaceBlockEvent", "RightClickEvent"} |->
       IF t = "PlaceBlockEvent" THEN <<"on_place">> ELSE <<>>]

\* The SetCreativeModeSlot arm, for the held slot.
ConnSetCreativeModeSlot(stack) ==
    /\ conn.open /\ Idle
    /\ heldItem' = stack
    /\ UNCHANGED <<useLog, placeLog>>
    /\ UNCHANGED <<listVars, tableVars, regVars, extVars>>
    /\ UNCHANGED <<sectionVars, dimVars, spawned, entityVars, connVars,
                   taskVars, stageVars, lifeVars, worldVars>>

\* The UseItemOn arm.  Without a current dimension it returns
\* ActorIsNotLoaded before it has done anything.
ConnUseItemOn(target, face) ==
    /\ conn.open /\ Idle
    /\ Len(useLog) < MaxUses
    /\ LET final_pos == FinalPos(target, face)
           state == NewBlockState(heldItem.kind)
           event == UseEvent(state, final_pos)
           seq == Len(useLog) + 1
       IN  IF conn.dimension = None
           THEN /\ useLog' = Append(useLog,
                                    [outcome |-> "ActorIsNotLoaded",
                                     final_pos |-> final_pos, state |-> state,
                                     held |-> heldItem, after |-> heldItem,
                                     events |-> <<>>, event_id |-> 0])
                /\ UNCHANGED <<heldItem, taskQueue, spawnLog>>
           ELSE /\ heldItem' = HeldAfterUse(heldItem, state)
                /\ taskQueue' =
                     SpawnEvent(SpawnTask(taskQueue, workers,
                                          SetBlockTask(seq, final_pos, state)),
                                workers,
                                Event(event.type, Len(spawnLog) + 1, final_pos))
                /\ spawnLog' =
                     Append(spawnLog,
                            Event(event.type, Len(spawnLog) + 1, final_pos))
                /\ useLog' = Append(useLog,
                                    [outcome |-> "Ok",
                                     final_pos |-> final_pos, state |-> state,
                                     held |-> heldItem,
                                     after |-> HeldAfterUse(heldItem, state),
                                     events |-> <<event>>,
                                     event_id |-> Len(spawnLog) + 1])
    /\ UNCHANGED placeLog
    /\ UNCHANGED <<workers, dispatchLog, runLog, digLog>>
    /\ UNCHANGED <<dimVars, spawned>>
    /\ UNCHANGED <<listVars, tableVars, regVars, extVars>>
    /\ UNCHANGED <<sectionVars, entityVars, connVars, stageVars, lifeVars,
                   worldVars>>

\* A worker runs the task it took.  The set_block task of the arm and the
\* handler on_place call Dimension::set_block and wait for the reply; the
\* result is dropped.  A dispatch submits the handlers of the event.
WorkerRunUse(w) ==
    /\ workers[w].state = "running"
    /\ LET task == workers[w].task
       IN  IF task.kind = "dispatch"
           THEN /\ taskQueue' = SpawnAll(taskQueue, workers,
                                        Dispatch(UseBus, task.event))
                /\ dispatchLog' = Append(dispatchLog, task.event.id)
                /\ workers' = [workers EXCEPT ![w] = IdleWorker]
                /\ UNCHANGED dimMailbox
           ELSE /\ dimMailbox' =
                     MailboxSend(dimMailbox,
                                 IF task.kind = "set_block"
                                 THEN [op |-> "SetBlock", from |-> "use",
                                       seq |-> task.event.id,
                                       position |-> task.event.position,
                                       block_state |-> task.event.block]
                                 ELSE [op |-> "SetBlock",
                                       from |-> task.handler,
                                       seq |-> task.event.id,
                                       position |-> task.event.position,
                                       block_state |-> NewBlockState("air")])
                /\ workers' = [workers EXCEPT ![w].state = "waiting"]
                /\ UNCHANGED <<taskQueue, dispatchLog>>
    /\ UNCHANGED <<runLog, spawnLog, digLog>>
    /\ UNCHANGED <<chunks, sentLog, handledLog, spawned>>
    /\ UNCHANGED <<listVars, tableVars, regVars, itemVars, extVars>>
    /\ UNCHANGED <<sectionVars, entityVars, connVars, stageVars, lifeVars,
                   worldVars>>

\* The dimension handles a set_block request of a task and replies; the
\* task that waited returns.  What the dimension stores for a state
\* without a valid id is a matter of BlockState: the model leaves the world
\* as it is.
DimHandleUseSetBlock ==
    /\ dimMailbox # <<>>
    /\ LET got == MailboxRecv(dimMailbox)
       IN  /\ got.msg.op = "SetBlock" /\ got.msg.from \in {"use", "on_place"}
           /\ dimMailbox' = got.rest
           /\ \E res \in {IF IdIsValid(got.msg.block_state)
                          THEN DimSetBlock(chunks, got.msg.position,
                                           got.msg.block_state)
                          ELSE <<chunks, <<>>>>} :
                 /\ chunks' = res[1]
                 /\ spawned' = spawned \o res[2]
                 /\ placeLog' =
                      IF got.msg.from # "use" THEN placeLog
                      ELSE Append(placeLog,
                             [seq |-> got.msg.seq,
                              placed |->
                                 /\ IdIsValid(got.msg.block_state)
                                 /\ DimGetBlock(res[1], got.msg.position)[1]
                                      = got.msg.block_state])
           /\ handledLog' = Append(handledLog, <<got.msg.from, got.msg.seq>>)
           /\ workers' =
                [w \in Workers |->
                   IF /\ workers[w].state = "waiting"
                      /\ workers[w].task.event.id = got.msg.seq
                      /\ (workers[w].task.kind = "set_block")
                           = (got.msg.from = "use")
                   THEN IdleWorker ELSE workers[w]]
    /\ UNCHANGED sentLog
    /\ UNCHANGED <<heldItem, useLog>>
    /\ UNCHANGED <<taskQueue, dispatchLog, runLog, spawnLog, digLog>>
    /\ UNCHANGED <<listVars, tableVars, regVars, extVars>>
    /\ UNCHANGED <<sectionVars, entityVars, connVars, stageVars,
                   lifeVars, worldVars>>

---------------------------------------------------------------------------
(* The block-update broadcast of set_block: the handler writes the block   *)
(* and spawns a task; the task asks the server for players() and writes    *)
(* one packet to each connection of the answer, one after the other.       *)

\* How many set_block requests the dimension handles.
MaxCasts == 1

CastIds == 1..MaxCasts

\* What the requests write, and where.
CastPositions == {<<17, -3, 5>>}
CastBlocks == {NewBlockState("stone")}

\* The packet the task writes.
BlockUpdatePacket(i, position, block_state) ==
    [cast |-> i, pos |-> position, block |-> ProtocolId(block_state)]

\* DimensionData::set_block on a position inside the dimension: the write,
\* then Runtime::spawn of the broadcast task.
DimCastSetBlock(position, block_state) ==
    /\ Len(casts) < MaxCasts
    /\ \E res \in {DimSetBlock(chunks, position, block_state)} :
         /\ chunks' = res[1]
         /\ spawned' = spawned \o res[2]
         /\ casts' = Append(casts,
                            [pos |-> position, block |-> block_state,
                             stored |-> DimGetBlock(res[1], position)[1],
                             pc |-> "spawned", players |-> <<>>,
                             listed |-> <<>>, stages |-> <<>>,
                             wrote |-> <<>>])
    /\ UNCHANGED <<dimMailbox, sentLog, handledLog, blockUpdates>>
    /\ UNCHANGED <<sectionVars, entityVars, connVars, taskVars, stageVars,
                   lifeVars, worldVars>>
    /\ UNCHANGED <<listVars, tableVars, regVars, itemVars, extButCast>>

\* The task starts: `server.players().await` puts the request into the
\* server's mailbox.
CastAskPlayers(i) ==
    /\ i \in 1..Len(casts)
    /\ casts[i].pc = "spawned"
    /\ casts' = [casts EXCEPT ![i].pc = "asked"]
    /\ srvQueue' = Append(srvQueue, ServerMessage("GetPlayers", i))
    /\ UNCHANGED <<connections, peers, replies, srvLoop, blockUpdates>>
    /\ UNCHANGED <<sectionVars, dimVars, spawned, entityVars, connVars,
                   taskVars, stageVars, lifeVars, worldVars>>
    /\ UNCHANGED <<tableVars, regVars, itemVars, extButCast>>

\* The broadcast tasks after handle_messages has answered the messages
\* `queue` with `out`: a task whose GetPlayers request was among them has
\* the answer, and the list and the stage flags the answer was made from:
\* the list as the messages before the request have left it.
CastsAnswered(cs, queue, out, conns, ps) ==
    [i \in 1..Len(cs) |->
       IF \E k \in 1..Len(queue) :
            queue[k].kind = "GetPlayers" /\ queue[k].arg = i
       THEN LET k == CHOOSE k \in 1..Len(queue) :
                       queue[k].kind = "GetPlayers" /\ queue[k].arg = i
            IN  [cs[i] EXCEPT !.pc = "answered",
                              !.players = out[k].value,
                              !.listed =
                                 HandleMessages(conns, ps,
                                                SubSeq(queue, 1, k - 1),
                                                <<>>).connections,
                              !.stages = [c \in ConnIds |-> ps[c].stage]]
       ELSE cs[i]]

\* handle_loops, second statement, with the requests of the broadcast
\* tasks among the messages: handle_messages answers the first `n`
\* messages of the mailbox in order.
ServerHandleRequests(n) ==
    /\ srvLoop.pc = "messages"
    /\ n \in 0..Len(srvQueue)
    /\ \E r \in {HandleMessages(connections, peers,
                                SubSeq(srvQueue, 1, n), <<>>)} :
          /\ connections' = r.connections
          /\ replies' = r.replies
          /\ casts' = CastsAnswered(casts, SubSeq(srvQueue, 1, n), r.replies,
                                    connections, peers)
    /\ srvQueue' = SubSeq(srvQueue, n + 1, Len(srvQueue))
    /\ srvLoop' = [srvLoop EXCEPT !.pc = "tick"]
    /\ UNCHANGED <<peers, blockUpdates>>
    /\ UNCHANGED <<sectionVars, dimVars, spawned, entityVars, connVars,
                   taskVars, stageVars, lifeVars, worldVars>>
    /\ UNCHANGED <<tableVars, regVars, itemVars, extButCast>>

\* The task's loop, one turn: `let _ = conn.write_packet(..).await` for the
\* next connection of the answer.  The packet reaches a connection whose
\* thread runs; the error of one that has ended is dropped.
CastWritePacket(i) ==
    /\ i \in 1..Len(casts)
    /\ casts[i].pc = "answered"
    /\ Len(casts[i].wrote) < Len(casts[i].players)
    /\ LET c == casts[i].players[Len(casts[i].wrote) + 1]
           ok == peers[c].state = "running"
       IN  /\ casts' = [casts EXCEPT ![i].wrote =
                          Append(@, [conn |-> c,
                                     outcome |-> IF ok THEN "Ok"
                                                 ELSE "ActorDoesNotExist"])]
           /\ blockUpdates' =
                IF ok
                THEN [blockUpdates EXCEPT ![c] =
                        Append(@, BlockUpdatePacket(i, casts[i].pos,
                                                    casts[i].block))]
                ELSE blockUpdates
    /\ UNCHANGED <<sectionVars, dimVars, spawned, entityVars, connVars,
                   taskVars, stageVars, lifeVars, worldVars>>
    /\ UNCHANGED <<listVars, tableVars, regVars, itemVars, extButCast>>

---------------------------------------------------------------------------
(* The inventory packets of the Play stage: ContainerClick, ContainerClose, *)
(* SetCarriedItem and the two drop actions, on the player's inventory and  *)
(* the inventory of the screen a handler has opened.  An inventory is kept *)
(* as the finite map of its slots that hold something other than air.      *)

\* The slots of a player's inventory: crafting 0..4, armour 5..8, the upper
\* rows 9..35, the hotbar 36..44, the off hand 45.
PlayerSlots == 46

\* The rows of the generic windows a handler opens; a window of r rows has
\* 9 * r container slots.
ScreenRows == {1, 2}

ContainerSlots(rows) == 9 * rows

\* Inventory::get_slot and Inventory::set_slot: an index the inventory does
\* not have is an error.
HasSlot(size, index) == index >= 0 /\ index < size

GetSlot(items, index) == IF index \in DOMAIN items THEN items[index] ELSE ItemAir

SetSlot(items, index, stack) ==
    IF stack = ItemAir THEN MapRemove(items, index)
    ELSE MapInsert(items, index, stack)

\* ScreenWindowKind::get_slot_index_group for a generic window: the
\* container's slots come first, then the 27 upper slots of the player,
\* then the 9 of the hotbar.  No other index has a group.
GetSlotIndexGroup(rows, index) ==
    LET n == ContainerSlots(rows)
    IN  IF index >= 0 /\ index < n THEN Some(<<"Container", index>>)
        ELSE IF index >= n /\ index < n + 27
             THEN Some(<<"PlayerUpper", index - n>>)
        ELSE IF index >= n + 27 /\ index < n + 36
             THEN Some(<<"PlayerHotbar", index - n - 27>>)
        ELSE None

\* One declared change with a screen open: where it goes.  The result is
\* the outcome and the two inventories.
ApplyToScreen(state, change) ==
    LET group == GetSlotIndexGroup(state.screen[1].rows, change.slot)
    IN  IF group = None THEN [state EXCEPT !.outcome = "panic"]
        ELSE CASE group[1][1] = "PlayerHotbar" ->
                    [state EXCEPT !.inventory =
                       SetSlot(@, 36 + group[1][2], change.data)]
               [] group[1][1] = "PlayerUpper" ->
                    [state EXCEPT !.inventory =
                       SetSlot(@, 9 + group[1][2], change.data)]
               [] OTHER ->
                    [state EXCEPT !.screen =
                       Some([@[1] EXCEPT !.items =
                               SetSlot(@, group[1][2], change.data)])]

\* One declared change with no screen open.
ApplyToPlayer(state, change) ==
    IF HasSlot(PlayerSlots, change.slot)
    THEN [state EXCEPT !.inventory = SetSlot(@, change.slot, change.data)]
    ELSE [state EXCEPT !.outcome = "IndexOutOfBounds"]

\* `for slot in packet.changed_slots.iter()`: the changes in order, up to
\* the first that panics or returns an error.
RECURSIVE ApplyChanges(_, _)
ApplyChanges(state, changes) ==
    IF changes = <<>> \/ state.outcome # "Ok" THEN state
    ELSE ApplyChanges(IF state.screen # None
                      THEN ApplyToScreen(state, Head(changes))
                      ELSE ApplyToPlayer(state, Head(changes)),
                      Tail(changes))

\* What the client may declare: slots of every group and one beyond.
ClickSlots == {0, 18, 45, 54}
ClickData == {ItemStack("stone", 1), ItemAir}
Changes == [slot : ClickSlots, data : ClickData]
ClickPackets ==
    {<<change>> : change \in Changes}
      \cup {<<a, b>> : a \in [slot : ClickSlots, data : {ItemStack("stone", 1)}],
                       b \in [slot : ClickSlots, data : {ItemAir}]}

\* The slots SetCarriedItem may name: the protocol field is a short.
CarriedSlots == {0, 8, 9, 10, -1}

InvRecord(kind, arg, before, outcome, events) ==
    [kind |-> kind, arg |-> arg, before |-> before, outcome |-> outcome,
     events |-> events]

\* Player::open_screen, sent by an event handler: the screen replaces the
\* one that was open, with an empty inventory of its own.
ConnOpenScreen(rows) ==
    /\ inv.alive
    /\ inv' = [inv EXCEPT !.screen = Some([rows |-> rows, items |-> EmptyMap])]
    /\ lastInv' = InvRecord("OpenScreen", rows, inv, "Ok", <<>>)
    /\ UNCHANGED <<sectionVars, dimVars, spawned, entityVars, connVars,
                   taskVars, stageVars, lifeVars, worldVars>>
    /\ UNCHANGED <<listVars, tableVars, regVars, itemVars, extButInv>>

\* The ContainerClick arm.  A panic ends the connection's thread.
ConnContainerClick(cursor_item, changed_slots) ==
    /\ inv.alive
    /\ \E r \in {ApplyChanges([inv EXCEPT !.cursor_item = cursor_item,
                                          !.outcome = "Ok"],
                              changed_slots)} :
         /\ inv' = [r EXCEPT !.alive = r.outcome # "panic"]
         /\ lastInv' = InvRecord("ContainerClick", changed_slots, inv,
                                 r.outcome, <<>>)
    /\ UNCHANGED <<sectionVars, dimVars, spawned, entityVars, connVars,
                   taskVars, stageVars, lifeVars, worldVars>>
    /\ UNCHANGED <<listVars, tableVars, regVars, itemVars, extButInv>>

\* The ContainerClose arm.
ConnContainerClose ==
    /\ inv.alive
    /\ inv' = [inv EXCEPT !.cursor_item = ItemAir, !.screen = None,
                          !.outcome = "Ok"]
    /\ lastInv' = InvRecord("ContainerClose", <<>>, inv, "Ok", <<>>)
    /\ UNCHANGED <<sectionVars, dimVars, spawned, entityVars, connVars,
                   taskVars, stageVars, lifeVars, worldVars>>
    /\ UNCHANGED <<listVars, tableVars, regVars, itemVars, extButInv>>

\* The SetCarriedItem arm.
ConnSetCarriedItem(slot) ==
    /\ inv.alive
    /\ inv' = [inv EXCEPT !.held_slot = slot + 36, !.outcome = "Ok"]
    /\ lastInv' = InvRecord("SetCarriedItem", slot, inv, "Ok",
                            <<[type |-> "ChangeHeldSlotEvent",
                               slot |-> slot + 36]>>)
    /\ UNCHANGED <<sectionVars, dimVars, spawned, entityVars, connVars,
                   taskVars, stageVars, lifeVars, worldVars>>
    /\ UNCHANGED <<listVars, tableVars, regVars, itemVars, extButInv>>

\* PlayerAction with DropItem or DropItemStack: get_inv_slot, set_inv_slot
\* with air, DropItemEvent; the first error ends the arm.
ConnDropItem(status) ==
    /\ inv.alive
    /\ IF HasSlot(PlayerSlots, inv.held_slot)
       THEN /\ inv' = [inv EXCEPT !.inventory =
                                    SetSlot(@, inv.held_slot, ItemAir),
                                  !.outcome = "Ok"]
            /\ lastInv' = InvRecord(status, inv.held_slot, inv, "Ok",
                                    <<[type |-> "DropItemEvent",
                                       item |-> GetSlot(inv.inventory,
                                                        inv.held_slot)]>>)
       ELSE /\ inv' = [inv EXCEPT !.outcome = "IndexOutOfBounds"]
            /\ lastInv' = InvRecord(status, inv.held_slot, inv,
                                    "IndexOutOfBounds", <<>>)
    /\ UNCHANGED <<sectionVars, dimVars, spawned, entityVars, connVars,
                   taskVars, stageVars, lifeVars, worldVars>>
    /\ UNCHANGED <<listVars, tableVars, regVars, itemVars, extButInv>>

---------------------------------------------------------------------------
(* Calls between the Server and the connections.  A call on a handle puts  *)
(* a message with a reply channel into the callee's mailbox and blocks the *)
(* calling thread until the reply is there.  Server::player calls the      *)
(* connections from inside the server's handler; connect_to_new_dimension  *)
(* calls the server from inside the connection's handler.                  *)

\* The connections the server has listed, in the order of the list, and
\* how many tasks call Server::player.
LockConns == {1, 2}
MaxAsks == 1

\* The UUIDs asked for: the one of the second connection and an unknown one.
AskUuids == {PeerUuid(2), <<"uuid", 0>>}

\* The calls connect_to_new_dimension makes on the server after its loop:
\* dimension(token), then connections() twice.
JoinCalls == <<"GetDimension", "GetConnections", "GetConnections">>

Request(kind, from, arg) == [kind |-> kind, from |-> from, arg |-> arg]

ServerIdle == [pc |-> "recv", query |-> <<>>, at |-> 0, phase |-> ""]

\* A task (the one Swing and Interact spawn) calls Server::get()?.player.
TaskCallPlayer(uuid) ==
    /\ Len(askTasks) < MaxAsks
    /\ askTasks' = Append(askTasks, [uuid |-> uuid, reply |-> None])
    /\ srvActor' = [srvActor EXCEPT !.mailbox =
                      MailboxSend(@, Request("GetPlayerByUuid",
                                             <<"task", Len(askTasks) + 1>>,
                                             uuid))]
    /\ UNCHANGED connActor
    /\ UNCHANGED <<sectionVars, dimVars, spawned, entityVars, connVars,
                   taskVars, stageVars, lifeVars, worldVars>>
    /\ UNCHANGED <<listVars, tableVars, regVars, itemVars, extButLock>>

\* The server's thread after the answer `got` of connection `at` in
\* ServerData::player: the next call it blocks in, or the reply to the
\* task.  The result is <<server, connections, tasks>>.
PlayerLoop(srv, cs, tasks, at, phase, got) ==
    LET uuid == srv.thread.query.arg
        task == srv.thread.query.from[2]
        call(c, what) ==
            <<[srv EXCEPT !.thread = [pc |-> "waitConn",
                                      query |-> srv.thread.query,
                                      at |-> c, phase |-> what]],
              [cs EXCEPT ![c].mailbox =
                 MailboxSend(@, Request(what, "server", <<>>))],
              tasks>>
        answer(outcome, value) ==
            <<[srv EXCEPT !.thread = ServerIdle], cs,
              [tasks EXCEPT ![task].reply = Some(<<outcome, value>>)]>>
    IN  CASE phase = "GetUuid" /\ got = uuid -> call(at, "GetStage")
          [] phase = "GetStage" /\ got = "Play" -> answer("Ok", at)
          [] OTHER ->
               IF at + 1 \in LockConns THEN call(at + 1, "GetUuid")
               ELSE answer("BadRequest", 0)

\* The server's event loop takes a message.  dimension(), connections()
\* and registries() answer at once; player() starts its loop over the list
\* and blocks in `conn.player.get(PlayerComponents::UUID)`.
ServerRecv ==
    /\ srvActor.thread.pc = "recv"
    /\ srvActor.mailbox # <<>>
    /\ LET got == MailboxRecv(srvActor.mailbox)
           srv == [srvActor EXCEPT !.mailbox = got.rest]
       IN  IF got.msg.kind = "GetPlayerByUuid"
           THEN \E r \in {PlayerLoop([srv EXCEPT !.thread.query = got.msg],
                                     connActor, askTasks, 0, "", <<>>)} :
                  /\ srvActor' = r[1]
                  /\ connActor' = r[2]
                  /\ askTasks' = r[3]
           ELSE /\ srvActor' = srv
                /\ connActor' = [connActor EXCEPT ![got.msg.from].pc = "replied"]
                /\ UNCHANGED askTasks
    /\ UNCHANGED <<sectionVars, dimVars, spawned, entityVars, connVars,
                   taskVars, stageVars, lifeVars, worldVars>>
    /\ UNCHANGED <<listVars, tableVars, regVars, itemVars, extButLock>>

\* A connection's thread handles a message of its mailbox: from its event
\* loop, or from the handle_messages of the loop of
\* connect_to_new_dimension.  The reply wakes the server, which goes on
\* with its loop.
ConnAnswer(c) ==
    /\ connActor[c].pc \in {"recv", "polling"}
    /\ connActor[c].mailbox # <<>>
    /\ LET got == MailboxRecv(connActor[c].mailbox)
           value == IF got.msg.kind = "GetUuid" THEN PeerUuid(c) ELSE "Play"
           cs == [connActor EXCEPT ![c].mailbox = got.rest]
       IN  \E r \in {PlayerLoop(srvActor, cs, askTasks, c, got.msg.kind,
                                value)} :
             /\ srvActor' = r[1]
             /\ connActor' = r[2]
             /\ askTasks' = r[3]
    /\ UNCHANGED <<sectionVars, dimVars, spawned, entityVars, connVars,
                   taskVars, stageVars, lifeVars, worldVars>>
    /\ UNCHANGED <<listVars, tableVars, regVars, itemVars, extButLock>>

\* AcceptTeleportation with id 0: connect_to_new_dimension up to its loop.
ConnJoinBegin(c) ==
    /\ connActor[c].pc = "recv"
    /\ ~connActor[c].joined
    /\ connActor' = [connActor EXCEPT ![c].pc = "polling", ![c].token = NullKey]
    /\ UNCHANGED <<srvActor, askTasks>>
    /\ UNCHANGED <<sectionVars, dimVars, spawned, entityVars, connVars,
                   taskVars, stageVars, lifeVars, worldVars>>
    /\ UNCHANGED <<listVars, tableVars, regVars, itemVars, extButLock>>

\* A PlayerJoinEvent handler writes the token.
ConnJoinToken(c) ==
    /\ connActor[c].pc = "polling"
    /\ connActor[c].token = NullKey
    /\ connActor' = [connActor EXCEPT ![c].token = "example:root"]
    /\ UNCHANGED <<srvActor, askTasks>>
    /\ UNCHANGED <<sectionVars, dimVars, spawned, entityVars, connVars,
                   taskVars, stageVars, lifeVars, worldVars>>
    /\ UNCHANGED <<listVars, tableVars, regVars, itemVars, extButLock>>

\* connect_to_new_dimension goes on to its next call on the server and
\* blocks in it: out of the loop once the token is set, and from one reply
\* to the next call; after the last reply the handler returns.
ConnJoinCall(c) ==
    /\ \/ connActor[c].pc = "polling" /\ connActor[c].token # NullKey
       \/ connActor[c].pc = "replied"
    /\ IF connActor[c].calls < Len(JoinCalls)
       THEN /\ connActor' = [connActor EXCEPT ![c].pc = "waitServer",
                                              ![c].calls = @ + 1]
            /\ srvActor' = [srvActor EXCEPT !.mailbox =
                              MailboxSend(@, Request(
                                JoinCalls[connActor[c].calls + 1], c, <<>>))]
       ELSE /\ connActor' = [connActor EXCEPT ![c].pc = "recv",
                                              ![c].joined = TRUE]
            /\ UNCHANGED srvActor
    /\ UNCHANGED askTasks
    /\ UNCHANGED <<sectionVars, dimVars, spawned, entityVars, connVars,
                   taskVars, stageVars, lifeVars, worldVars>>
    /\ UNCHANGED <<listVars, tableVars, regVars, itemVars, extButLock>>

---------------------------------------------------------------------------
(* Chunk transfers.  The task send_chunks spawns asks the dimension for    *)
(* every section of the chunk, builds the chunk packet and writes four     *)
(* packets to the connection, each with a call that waits for the answer.  *)
(* The tasks are taken from the pool's queue in order and run on its       *)
(* workers; every `.unwrap()` of the task ends it when the call failed.    *)

ChunkPacketKinds ==
    <<"SetChunkCacheCenter", "ChunkBatchStart", "LevelChunkWithLight",
      "ChunkBatchFinished">>

\* `for y in (min_y..max_y).step_by(16)`: the values of y, in order.
FetchYs(dim_type) ==
    [k \in 1..((dim_type.height + 15) \div 16) |->
       dim_type.min_y + 16 * (k - 1)]

\* The loop of get_chunk_section calls of one transfer: <<outcome, chunks,
\* events>>.  The first call initialises the chunk; a call for a section
\* the chunk does not have panics on the dimension's thread.
FetchSections(cs, pos) ==
    LET ys == FetchYs(DimType)
        init == TryInitializeChunk(cs, pos)
    IN  <<IF \A k \in 1..Len(ys) :
               DimGetChunkSection(init[1], <<pos[1], ys[k], pos[2]>>)[1] = "ok"
          THEN "ok" ELSE "panic",
          init[1], init[2]>>

TransfersRunning ==
    {i \in 1..Len(transfers) : transfers[i].pc \in {"running", "fetched"}}

\* A worker of the pool takes the transfer at the head of the queue.
TransferTake(i) ==
    /\ i \in 1..Len(transfers)
    /\ transfers[i].pc = "queued"
    /\ \A j \in 1..(i - 1) : transfers[j].pc # "queued"
    /\ Cardinality(TransfersRunning) < Cardinality(Workers)
    /\ transfers' = [transfers EXCEPT ![i].pc = "running"]
    /\ UNCHANGED writer
    /\ UNCHANGED <<sectionVars, dimVars, spawned, entityVars, connVars,
                   taskVars, stageVars, lifeVars, worldVars>>
    /\ UNCHANGED <<listVars, tableVars, regVars, itemVars, extButStream>>

\* The task up to the packet it builds: dimension_type(), registries() and
\* the get_chunk_section calls.  A dimension whose thread has ended answers
\* no call, and the task's unwrap() panics.
TransferFetch(i) ==
    /\ i \in 1..Len(transfers)
    /\ transfers[i].pc = "running"
    /\ IF panics # 0
       THEN /\ transfers' = [transfers EXCEPT ![i].pc = "panicked"]
            /\ UNCHANGED <<chunks, spawned, panics>>
       ELSE \E r \in {FetchSections(chunks, transfers[i].pos)} :
               /\ chunks' = r[2]
               /\ spawned' = spawned \o r[3]
               /\ panics' = IF r[1] = "ok" THEN panics ELSE panics + 1
               /\ transfers' = [transfers EXCEPT ![i].pc =
                                  IF r[1] = "ok" THEN "fetched"
                                  ELSE "panicked"]
    /\ UNCHANGED writer
    /\ UNCHANGED <<dimMailbox, sentLog, handledLog, genChunk, lastCall>>
    /\ UNCHANGED <<sectionVars, entityVars, connVars, taskVars, stageVars,
                   lifeVars>>
    /\ UNCHANGED <<listVars, tableVars, regVars, itemVars, extButStream>>

\* The next `player.write_packet(..).await.unwrap()` of the task: the
\* connection's thread takes the request and writes the packet.  A
\* connection that has closed answers no call.
TransferWrite(i) ==
    /\ i \in 1..Len(transfers)
    /\ transfers[i].pc = "fetched"
    /\ IF conn.open
       THEN /\ writer' = Append(writer,
                                [kind |-> ChunkPacketKinds[transfers[i].wrote + 1],
                                 transfer |-> i, pos |-> transfers[i].pos])
            /\ transfers' = [transfers EXCEPT
                               ![i].wrote = @ + 1,
                               ![i].pc = IF transfers[i].wrote + 1
                                            = Len(ChunkPacketKinds)
                                         THEN "done" ELSE "fetched"]
       ELSE /\ transfers' = [transfers EXCEPT ![i].pc = "panicked"]
            /\ UNCHANGED writer
    /\ UNCHANGED <<sectionVars, dimVars, spawned, entityVars, connVars,
                   taskVars, stageVars, lifeVars, worldVars>>
    /\ UNCHANGED <<listVars, tableVars, regVars, itemVars, extButStream>>

---------------------------------------------------------------------------
(* Dimension types.  A dimension type gives min_y and height; the chunk    *)
(* of a dimension has the sections try_initialize_chunk computes from      *)
(* them, Chunk::set_block_at and Chunk::get_block_at find the section of a *)
(* y with div_euclid, and the fetch loop of a chunk transfer finds it with *)
(* `/`.                                                                    *)

TypeMinYs == {-64, -60, -16, -8, 0, 8}
TypeHeights == {16, 32, 256, 384}
TypeChoices == [min_y : TypeMinYs, height : TypeHeights]

\* The heights probed in a type: its two ends, the ends of its first and
\* last sections, and the two sides of y = 0.
TypeYs(dim_type) ==
    LET max_y == dim_type.min_y + dim_type.height
    IN  {y \in {dim_type.min_y, dim_type.min_y + 1, dim_type.min_y + 15,
                dim_type.min_y + 16, -1, 0, max_y - 16, max_y - 1} :
           y >= dim_type.min_y /\ y < max_y}

\* The fetch loop of a chunk transfer on a chunk of the type: for every y
\* of the loop, the place in `sections` get_chunk_section reads, 0 when
\* section_at_mut finds none.
FetchSlots(dim_type) ==
    LET ys == FetchYs(dim_type)
        chunk == ChunkOfType(dim_type)
    IN  [k \in 1..Len(ys) |-> SectionSlot(chunk, TruncDiv(ys[k], 16))]

\* A block is written at height y of a new chunk of the type and read
\* back.
TypeSetBlock(dim_type, y) ==
    /\ LET pos == <<0, y, 0>>
           chunk == ChunkSetBlockAt(ChunkOfType(dim_type), pos,
                                    NewBlockState("stone"))
       IN  typeCall' = [op |-> "set_block", dim_type |-> dim_type, y |-> y,
                        read |-> ChunkGetBlockAt(chunk, pos),
                        slots |-> <<>>,
                        sections |-> Len(chunk.sections)]
    /\ UNCHANGED <<sectionVars, dimVars, spawned, entityVars, connVars,
                   taskVars, stageVars, lifeVars, worldVars>>
    /\ UNCHANGED <<listVars, tableVars, regVars, itemVars, castVars, invVars,
                   lockVars, flowVars, streamVars>>

\* A chunk transfer fetches the sections of a new chunk of the type.
TypeFetch(dim_type) ==
    /\ typeCall' = [op |-> "fetch", dim_type |-> dim_type, y |-> 0,
                    read |-> NewBlockState("air"),
                    slots |-> FetchSlots(dim_type),
                    sections |-> Len(ChunkOfType(dim_type).sections)]
    /\ UNCHANGED <<sectionVars, dimVars, spawned, entityVars, connVars,
                   taskVars, stageVars, lifeVars, worldVars>>
    /\ UNCHANGED <<listVars, tableVars, regVars, itemVars, castVars, invVars,
                   lockVars, flowVars, streamVars>>

---------------------------------------------------------------------------
InitSection == section = SectionEmpty

InitDim ==
    /\ chunks = EmptyMap
    /\ dimMailbox = <<>>
    /\ sentLog = [p \in Producers |-> <<>>]
    /\ handledLog = <<>>
    /\ spawned = <<>>

InitEntity ==
    /\ last_entity_id = 0
    /\ srvMailbox = <<>>
    /\ issuedIds = <<>>
    /\ dimActors = [d \in Dimensions |->
                      [mailbox |-> <<>>, entities |-> EmptyMap, pc |-> "recv",
                       uuid |-> 0, entity_type |-> "", reply |-> None]]

InitConn ==
    /\ conn = [open |-> TRUE, teleport_sent |-> None,
               teleport_received |-> None, position |-> <<0, 64, 0>>,
               direction |-> <<0, 0>>, render_distance |-> 2,
               loaded_chunks |-> <<>>, last_chunk_position |-> <<0, 0>>,
               dimension |-> None, joins |-> 0, gamemode |-> None]
    /\ connStack = <<>>
    /\ connMailbox = <<>>
    /\ joinToken = NullKey
    /\ joinTask = [token_pending |-> FALSE, messages |-> 0]
    /\ lastPacket = [packet |-> NoPacket,
                     before |-> [position |-> <<0, 64, 0>>,
                                 direction |-> <<0, 0>>,
                                 teleport_sent |-> None,
                                 teleport_received |-> None],
                     events |-> <<>>, calls |-> <<>>]
    /\ stream = <<>>

InitTasks ==
    /\ taskQueue = <<>>
    /\ workers = [w \in Workers |-> IdleWorker]
    /\ dispatchLog = <<>>
    /\ runLog = {}
    /\ spawnLog = <<>>
    /\ digLog = <<>>

InitStagePlay == stage = "Play"

\* networking_loop: an accepted connection starts in Handshake.
InitStage == stage = "Handshake"

InitLife ==
    actors = [a \in Actors |-> [state |-> "none", strong |-> 0, weak |-> 0]]

NoCall ==
    [n |-> 0, op |-> "", pos |-> <<0, 0, 0>>, block |-> NewBlockState("air"),
     outcome |-> "ok", before |-> EmptyMap, result |-> None, events |-> <<>>]

InitWorld ==
    /\ genChunk = ChunkNew(TruncDiv(DimType.min_y, 16),
                           TruncDiv(DimType.min_y + DimType.height, 16))
    /\ lastCall = NoCall
    /\ panics = 0

\* ServerBuilder: the list is empty; start() has entered handle_loops.
InitList ==
    /\ connections = <<>>
    /\ peers = [c \in ConnIds |->
                  [state |-> "none", stage |-> "Handshake", signal |-> 0]]
    /\ srvQueue = <<>>
    /\ replies = <<>>
    /\ srvLoop = [pc |-> "retain", ticks |-> 0]

\* DimensionData::new: `entities: HashMap::new()`
InitTable ==
    /\ entities = EmptyMap
    /\ entityCall = [op |-> "", uuid |-> "", before |-> EmptyMap,
                     outcome |-> "Ok", value |-> <<>>, tasks |-> <<>>]
    /\ playerSpawns = 0

\* ServerBuilder: no dimension has been created.
InitRegistry ==
    /\ dimensions = EmptyMap
    /\ dimThreads = <<>>
    /\ regCall = [op |-> "", key |-> "", outcome |-> "Ok", value |-> <<>>,
                  before |-> <<EmptyMap, <<>>>>]

\* The inventory of a new connection is empty.
InitItems ==
    /\ heldItem = ItemAir
    /\ useLog = <<>>
    /\ placeLog = <<>>

\* A connection that has entered Play: nothing in the inventory, no screen,
\* the first hotbar slot in hand.
InitInv ==
    /\ inv = [inventory |-> EmptyMap, screen |-> None, held_slot |-> 36,
              cursor_item |-> ItemAir, alive |-> TRUE, outcome |-> "Ok"]
    /\ lastInv = InvRecord("", <<>>, <<>>, "Ok", <<>>)

\* Two connections are listed and in Play; neither has joined a dimension.
InitLock ==
    /\ srvActor = [mailbox |-> <<>>, thread |-> ServerIdle]
    /\ connActor = [c \in LockConns |->
                      [mailbox |-> <<>>, pc |-> "recv", token |-> NullKey,
                       calls |-> 0, joined |-> FALSE]]
    /\ askTasks = <<>>

\* The new-dimension flow has not run.
InitFlow == entitySends = <<>>

\* No call has been made on a chunk of a chosen type.
InitType ==
    typeCall = [op |-> "", dim_type |-> DimType, y |-> 0,
                read |-> NewBlockState("air"), slots |-> <<>>, sections |-> 0]

\* send_chunks has spawned no transfer.
InitStream == transfers = <<>> /\ writer = <<>>

\* No set_block has been handled and no packet written.
InitCast ==
    /\ casts = <<>>
    /\ blockUpdates = [c \in ConnIds |-> <<>>]

Init ==
    /\ InitSection /\ InitDim /\ InitEntity /\ InitConn
    /\ InitTasks /\ InitStage /\ InitLife /\ InitWorld
    /\ InitList /\ InitTable /\ InitRegistry /\ InitItems
    /\ InitCast /\ InitInv /\ InitLock /\ InitFlow /\ InitStream
    /\ InitType

NextSection == SetBlockAt \/ SetBlockAtById

SpecSection == Init /\ [][NextSection]_vars

NextDim == (\E p \in Producers : ProducerSetBlock(p)) \/ DimHandleSetBlock

SpecDim == Init /\ [][NextDim]_vars

NextEntity ==
    \/ \E d \in Dimensions : CallSpawnEntity(d)
    \/ \E d \in Dimensions : SpawnEntityBegin(d)
    \/ ServerHandleNewEntityId
    \/ \E d \in Dimensions : SpawnEntityEnd(d)

SpecEntity == Init /\ [][NextEntity]_vars

NextTeleport ==
    \/ \E pkt \in TeleportPackets : ConnRecvPacket(pkt)
    \/ ServerSendTeleport

SpecTeleport == Init /\ [][NextTeleport]_vars

NextJoin ==
    \/ \E pkt \in JoinPackets : ConnRecvPacket(pkt)
    \/ JoinHandlerSetToken
    \/ JoinHandlerSetPosition
    \/ ConnMessageBegin
    \/ ConnMessageEnd
    \/ JoinFinish

SpecJoin == Init /\ [][NextJoin]_vars

\* When JoinFinish can happen: the loop of connect_to_new_dimension is at
\* its test and the token is no longer the sentinel.
JoinFinishEnabled == conn.open /\ Polling /\ joinToken # NullKey

\* The connection's thread keeps running: a message handler returns, and
\* the loop of connect_to_new_dimension looks at the token again.  The
\* second condition is WF_vars(JoinFinish) with ENABLED written out.
SpecJoinFair ==
    /\ Init /\ [][NextJoin]_vars
    /\ WF_vars(ConnMessageEnd)
    /\ ([]<>(~JoinFinishEnabled) \/ []<><<JoinFinish>>_vars)

NextChunks ==
    \/ \E pkt \in ChunkPackets : ConnRecvPacket(pkt)
    \/ JoinHandlerSetToken
    \/ JoinFinish

SpecChunks == Init /\ [][NextChunks]_vars

NextTasks ==
    \/ \E type \in EventTypes : ServerSpawnEvent(type)
    \/ \E w \in Workers : WorkerTake(w)
    \/ \E w \in Workers : WorkerRun(w, HandlerOutcomes)

SpecTasks == Init /\ [][NextTasks]_vars

NextStage ==
    \/ \E change \in StageChanges : StageAdvance(change[1], change[2])
    \/ ConnDisconnect
    \/ \E pkt \in TeleportPackets : PlayRecvPacket(pkt)
    \/ (stage = "Play" /\ ServerSendTeleport)

SpecStage == Init /\ [][NextStage]_vars

NextLife ==
    \/ \E a \in Actors : ActorSpawn(a)
    \/ \E a \in Actors, kind \in {"strong", "weak"}, by \in {-1, 1} :
          HandleStep(a, kind, by)
    \/ \E a \in Actors : ActorExit(a)

SpecLife == Init /\ [][NextLife]_vars

NextLocal == SectionCallSetBlockAt \/ SectionCallSetBlockAtById

SpecLocal == Init /\ [][NextLocal]_vars

NextGen == GenSetBlockAt \/ GenSetBlockAtById

SpecGen == Init /\ [][NextGen]_vars

NextWorld == DimCallSetBlock \/ DimCallGetBlock \/ DimCallGetChunkSection

SpecWorld == Init /\ [][NextWorld]_vars

\* A creative or survival player digs in a world in which one block was
\* written before the player joined; the event handlers return Ok.
NextDig ==
    \/ ConnRecvPacket(Packet("AcceptTeleportation", <<0, 0, 0>>, <<0, 0>>, 0, 0))
    \/ JoinHandlerSetToken
    \/ JoinFinish
    \/ \E g \in Gamemodes : PlayerSetGamemode(g)
    \/ \E pkt \in PlayerActionPackets : ConnRecvPlayerAction(pkt)
    \/ ConnPlayerActionEnd
    \/ (conn.joins = 0 /\ sentLog["p1"] = <<>> /\ ProducerSetBlock("p1"))
    \/ DimHandleSetBlock
    \/ \E w \in Workers : WorkerTake(w)
    \/ \E w \in Workers : WorkerRun(w, {"ok"})

SpecDig == Init /\ [][NextDig]_vars

NextList ==
    \/ \E c \in ConnIds : NetworkingAccept(c)
    \/ \E c \in ConnIds : \E ch \in StageChanges : PeerAdvance(c, ch[1], ch[2])
    \/ \E c \in ConnIds : PeerTerminate(c)
    \/ ServerRetain
    \/ \E n \in 0..MaxConns : \E asked \in Queries :
          ServerHandleMessages(n, asked)
    \/ \E due \in BOOLEAN : ServerTick(due)

\* handle_loops is a loop without a blocking call: its thread keeps going.
ServerLoop ==
    \/ ServerRetain
    \/ \E n \in 0..MaxConns : \E asked \in Queries :
          ServerHandleMessages(n, asked)
    \/ \E due \in BOOLEAN : ServerTick(due)

SpecList == Init /\ [][NextList]_vars /\ WF_vars(ServerLoop)

NextTable ==
    \/ ConnRecvPacket(Packet("AcceptTeleportation", <<0, 0, 0>>, <<0, 0>>, 0, 0))
    \/ JoinHandlerSetToken
    \/ JoinFinish
    \/ DimSpawnPlayerEntity
    \/ \E op \in EntityOps, uuid \in TableUuids :
         \E position \in EntityPositions, heading \in EntityHeadings :
            DimEntityCall(op, uuid, position, heading)

SpecTable == Init /\ [][NextTable]_vars

NextRegistry ==
    \/ \E name \in DimNames, dim_type \in DimTypes :
         ServerCreateDimension(name, dim_type)
    \/ \E key \in DimKeys : ServerGetDimension(key)

SpecRegistry == Init /\ [][NextRegistry]_vars

NextShape ==
    \/ \E b \in SectionBounds : GenNew(b[1], b[2])
    \/ \E pos \in {<<0, 0>>, <<-2, 50>>} : GenLazyInit(pos)
    \/ GenSetBlockAt
    \/ GenSetBlockAtById

SpecShape == Init /\ [][NextShape]_vars

NextPlace ==
    \/ ConnRecvPacket(Packet("AcceptTeleportation", <<0, 0, 0>>, <<0, 0>>, 0, 0))
    \/ JoinHandlerSetToken
    \/ JoinFinish
    \/ \E stack \in CreativeStacks : ConnSetCreativeModeSlot(stack)
    \/ \E target \in UseTargets, face \in UseFaces : ConnUseItemOn(target, face)
    \/ \E w \in Workers : WorkerTake(w)
    \/ \E w \in Workers : WorkerRunUse(w)
    \/ DimHandleUseSetBlock

SpecPlace == Init /\ [][NextPlace]_vars

\* A client that acknowledges teleports with any id it likes, 0 included.
AcceptPackets ==
    {Packet("AcceptTeleportation", <<0, 0, 0>>, <<0, 0>>, id, 0) :
       id \in AcceptIds}

NextAccept ==
    \/ \E pkt \in AcceptPackets : ConnRecvPacket(pkt)
    \/ ServerSendTeleport
    \/ JoinHandlerSetToken
    \/ JoinFinish

SpecAccept == Init /\ [][NextAccept]_vars

NextCast ==
    \/ \E c \in ConnIds : NetworkingAccept(c)
    \/ \E c \in ConnIds, ch \in StageChanges : PeerAdvance(c, ch[1], ch[2])
    \/ \E c \in ConnIds : PeerTerminate(c)
    \/ ServerRetain
    \/ \E n \in 0..(MaxConns + MaxCasts) : ServerHandleRequests(n)
    \/ ServerTick(FALSE)
    \/ \E position \in CastPositions, block_state \in CastBlocks :
         DimCastSetBlock(position, block_state)
    \/ \E i \in CastIds : CastAskPlayers(i)
    \/ \E i \in CastIds : CastWritePacket(i)

SpecCast == Init /\ [][NextCast]_vars

NextInv ==
    \/ \E rows \in ScreenRows : ConnOpenScreen(rows)
    \/ \E cursor_item \in {ItemAir}, changed_slots \in ClickPackets :
         ConnContainerClick(cursor_item, changed_slots)
    \/ ConnContainerClose
    \/ \E slot \in CarriedSlots : ConnSetCarriedItem(slot)
    \/ \E status \in {"DropItem", "DropItemStack"} : ConnDropItem(status)

SpecInv == Init /\ [][NextInv]_vars

NextLock ==
    \/ \E uuid \in AskUuids : TaskCallPlayer(uuid)
    \/ ServerRecv
    \/ \E c \in LockConns : ConnAnswer(c)
    \/ \E c \in LockConns : ConnJoinBegin(c)
    \/ \E c \in LockConns : ConnJoinToken(c)
    \/ \E c \in LockConns : ConnJoinCall(c)

SpecLock == Init /\ [][NextLock]_vars

\* A client that accepts teleport 0 and acknowledges teleports it was not
\* sent, while handlers read blocks of the dimension.
StreamPackets ==
    {Packet("AcceptTeleportation", <<0, 0, 0>>, <<0, 0>>, id, 0) :
       id \in {0, -1}}

NextStream ==
    \/ \E pkt \in StreamPackets : ConnRecvPacketSpawn(pkt)
    \/ JoinHandlerSetToken
    \/ JoinFinishSpawn
    \/ \E i \in 1..MaxTransfers : TransferTake(i)
    \/ \E i \in 1..MaxTransfers : TransferFetch(i)
    \/ \E i \in 1..MaxTransfers : TransferWrite(i)
    \/ DimCallGetBlock

SpecStream == Init /\ [][NextStream]_vars

NextType ==
    \/ \E dim_type \in TypeChoices :
         \E y \in TypeYs(dim_type) : TypeSetBlock(dim_type, y)
    \/ \E dim_type \in TypeChoices : TypeFetch(dim_type)

SpecType == Init /\ [][NextType]_vars

---------------------------------------------------------------------------
\* The number of the 4096 stored entries that are non-zero.
NonAirEntries(sec) ==
    Cardinality({idx \in 0..(ArrLen - 1) : ArrGet(sec.blocks, idx) # 0})

\* C1: after any sequence of set_block_at and set_block_at_by_id calls on an
\* empty section, block_count equals the number of stored entries whose id
\* is non-zero.
C1_BlockCountMatches == section.block_count = NonAirEntries(section)

\* A section that holds blocks after blocks were written and one was cleared.
C1_Witness ==
    /\ section.block_count = 2
    /\ ArrGet(section.blocks, IndexFromPos(<<0, 0, 0>>)) = 0
    /\ <<0, 0, 0>> \in DOMAIN section.block_meta

---------------------------------------------------------------------------
(* Dimension: concurrent writes and message order                          *)

\* The block get_block reads at a world position, without changing chunks.
StoredBlock(position) == DimGetBlock(chunks, position)[1]

\* The requests sent so far, as <<producer, seq>> pairs.
SentIds == {<<p, k>> : p \in Producers, k \in 1..MaxWrites} \cap
           {<<p, k>> \in Producers \X (1..MaxWrites) : k <= Len(sentLog[p])}

HandledIds == {handledLog[i] : i \in 1..Len(handledLog)}
QueuedIds == {<<dimMailbox[i].from, dimMailbox[i].seq>> : i \in 1..Len(dimMailbox)}

\* The block of p's last write to a position, if p wrote there.
WritesTo(p, position) ==
    {k \in 1..Len(sentLog[p]) : sentLog[p][k].position = position}
LastWrite(p, position) ==
    LET ks == WritesTo(p, position)
        k == CHOOSE x \in ks : \A y \in ks : y <= x
    IN  sentLog[p][k].block_state

Quiescent == dimMailbox = <<>>

---------------------------------------------------------------------------
(* Entity ids                                                              *)

EntityRecords ==
    {<<d, u>> \in Dimensions \X Uuids : u \in DOMAIN dimActors[d].entities}

\* C5: the ids new_entity_id returns are strictly increasing in the order
\* the server handles the requests, so none is returned twice, and no two
\* entities spawned on the server's dimensions share an id.
C5_EntityIdsIncrease ==
    /\ \A i, j \in 1..Len(issuedIds) : i < j => issuedIds[i] < issuedIds[j]
    /\ \A e1, e2 \in EntityRecords :
          e1 # e2 => dimActors[e1[1]].entities[e1[2]].id
                     # dimActors[e2[1]].entities[e2[2]].id
    /\ \A e \in EntityRecords :
          \E i \in 1..Len(issuedIds) :
             issuedIds[i] = dimActors[e[1]].entities[e[2]].id

\* Entities were spawned in both dimensions, two of them under the same UUID.
C5_Witness ==
    /\ \A d \in Dimensions : DOMAIN dimActors[d].entities # {}
    /\ Cardinality(EntityRecords) = MaxSpawns
    /\ \E u \in Uuids : \A d \in Dimensions : u \in DOMAIN dimActors[d].entities

---------------------------------------------------------------------------
(* Handlers on the connection's thread                                     *)

---------------------------------------------------------------------------
(* Teleport synchronisation                                                *)

\* C6: a move packet handled while a sent teleport id (>= 1) is not yet
\* acknowledged, which includes no acknowledgement ever received, changes
\* neither POSITION nor DIRECTION and dispatches no event; a move packet
\* handled after the acknowledgement writes the packet's values and
\* dispatches exactly one PlayerMoveEvent.
C6_MovesWaitForTeleportAck ==
    LET pkt    == lastPacket.packet
        before == lastPacket.before
        sent   == before.teleport_sent
        recv   == before.teleport_received
    IN  (pkt.kind \in MoveKinds /\ sent # None /\ sent[1] >= 1) =>
           IF recv = None \/ recv[1] < sent[1]
           THEN /\ conn.position = before.position
                /\ conn.direction = before.direction
                /\ lastPacket.events = <<>>
           ELSE /\ pkt.kind \in {"MovePlayerPos", "MovePlayerPosRot"}
                     => conn.position = pkt.pos
                /\ pkt.kind \in {"MovePlayerPosRot", "MovePlayerRot"}
                     => conn.direction = pkt.dir
                /\ lastPacket.events = <<PlayerMoveEvent(conn)>>

\* C7: once a teleport has been sent and one acknowledged, the acknowledged
\* id is at most the id sent last.
C7_ReceivedAtMostSent ==
    (conn.teleport_received # None /\ conn.teleport_sent # None)
       => conn.teleport_received[1] <= conn.teleport_sent[1]

---------------------------------------------------------------------------
(* Chunk streaming                                                         *)

\* The square of half-side render_distance / 2 + 2 around the chunk of the
\* player's position.
Window(c) ==
    LET centre == ChunkCenter(c.position)
        r == HalfSide(c.render_distance)
    IN  {pos \in ((centre[1] - r)..(centre[1] + r))
                   \X ((centre[2] - r)..(centre[2] + r)) : TRUE}

LoadedSet(c) == {c.loaded_chunks[i] : i \in 1..Len(c.loaded_chunks)}

SquaredDist(pos, centre) ==
    (pos[1] - centre[1]) * (pos[1] - centre[1])
      + (pos[2] - centre[2]) * (pos[2] - centre[2])

\* C8: every loaded chunk lies in the square around the player's chunk, in
\* every state of the connection.
C8_LoadedInsideWindow == LoadedSet(conn) \subseteq Window(conn)

\* C9: a send_chunks call schedules at most one chunk and adds at most one
\* coordinate; while position and render distance stay the same no chunk
\* is scheduled twice, and a call schedules nothing only when no chunk of
\* the window is left unloaded.
C9_OneNewChunkPerCall ==
    /\ \A i \in 1..Len(lastPacket.calls) :
          LET call == lastPacket.calls[i]
          IN  /\ Cardinality(call.added) <= 1
              /\ call.scheduled # None => call.added = {call.scheduled[1]}
              /\ (call.ran /\ call.scheduled = None)
                    => Window(conn) \subseteq LoadedSet(conn)
    /\ \A i, j \in 1..Len(stream) : i # j => stream[i] # stream[j]

\* C10: while position and render distance stay the same, the chunks are
\* scheduled in non-decreasing squared distance from the centre.
C10_NearestFirst ==
    \A i, j \in 1..Len(stream) :
       i < j => SquaredDist(stream[i], ChunkCenter(conn.position))
                  <= SquaredDist(stream[j], ChunkCenter(conn.position))


---------------------------------------------------------------------------
(* Digging and the order of its events                                     *)

\* The creative StartedDigging packets whose handler has returned.
CreativeDigs ==
    {k \in 1..Len(digLog) :
        digLog[k].status = "StartedDigging" /\ digLog[k].creative}

\* What the handler itself did: the block read back right after it is air,
\* and it handed one StartBreakBlockEvent and then one BreakBlockEvent, both
\* for the position dug at, to spawn_event.
DigHandlerDid(d) ==
    /\ d.block_after = Some(NewBlockState("air"))
    /\ Len(d.events) = 2
    /\ d.events[1].type = "StartBreakBlockEvent"
    /\ d.events[2].type = "BreakBlockEvent"
    /\ d.events[1].position = d.position
    /\ d.events[2].position = d.position

\* C11: after a creative-mode PlayerAction(StartedDigging, p) the block at p
\* is air, exactly one StartBreakBlockEvent and then exactly one
\* BreakBlockEvent were handed over, and the handlers of the
\* StartBreakBlockEvent are submitted before those of the BreakBlockEvent:
\* the dispatch of the second never runs before the dispatch of the first.
C11_StartBreakDispatchedFirst ==
    \A k \in CreativeDigs :
        /\ DigHandlerDid(digLog[k])
        /\ \A j \in 1..Len(dispatchLog) :
              dispatchLog[j] = digLog[k].events[2].id
              => \E i \in 1..(j - 1) : dispatchLog[i] = digLog[k].events[1].id

---------------------------------------------------------------------------
(* Reading back what was written                                           *)

\* C12: whatever the section holds, set_block_at(p, s) followed by
\* get_block_at(p) returns s: the same protocol id and the same CUSTOM_DATA,
\* which is absent when s carries none.
C12_SetThenGetReturnsWritten ==
    \A pos \in SectionPositions, block \in BlockStates :
        SectionGetBlockAt(SectionSetBlockAt(section, pos, block), pos) = block

---------------------------------------------------------------------------
(* World positions and chunk bounds                                        *)

\* The block the world holds at a position: the one in chunk
\* (floor(x/16), floor(z/16)) at the local coordinates x mod 16, z mod 16.
BlockAt(cs, q) ==
    LET cp == <<q[1] \div 16, q[3] \div 16>>
    IN  IF cp \in DOMAIN cs
        THEN ChunkGetBlockAt(cs[cp], <<q[1] % 16, q[2], q[3] % 16>>)
        ELSE NewBlockState("air")

\* The positions looked at for a change: those written and a neighbour.
ObservedPositions == WorldPositions \cup {<<15, 9, 15>>}

\* C13: set_block(pos, s) on any position of the vertical range, negative x
\* or z included, returns and stores s in chunk (floor(x/16), floor(z/16))
\* at local coordinates in [0, 16); a get_block(pos) that follows returns a
\* state with s's name; the block at every other position is what it was.
C13_SetGetAddressFloorChunk ==
    lastCall.op = "set_block" =>
        LET pos == lastCall.pos
            chunk_pos == ChunkPosOf(pos)
        IN  /\ lastCall.outcome = "ok"
            /\ chunk_pos = <<pos[1] \div 16, pos[3] \div 16>>
            /\ InSection(WithY(PosInChunk(pos), 0))
            /\ BlockAt(chunks, pos).name = lastCall.block.name
            /\ \A outcome \in ChunkAccess(chunks[chunk_pos], PosInChunk(pos)) :
                 /\ outcome = "ok"
                 /\ DimGetBlock(chunks, pos)[1].name = lastCall.block.name
            /\ \A q \in ObservedPositions \ {pos} :
                 BlockAt(chunks, q) = BlockAt(lastCall.before, q)

\* The chunk bounds set with max_chunks(3, 3), and a chunk inside them.
ChunkBounds == <<3, 3>>
InBounds(chunk_pos) ==
    /\ chunk_pos[1] \in (-ChunkBounds[1])..ChunkBounds[1]
    /\ chunk_pos[2] \in (-ChunkBounds[2])..ChunkBounds[2]

\* C15: get_block on a position whose chunk is outside the bounds returns
\* air and leaves the chunk map as it was, with no ChunkLoadEvent;
\* get_chunk_section on such a chunk returns none.
C15_OutOfBoundsReadAllocatesNothing ==
    /\ (lastCall.op = "get_block" /\ ~InBounds(ChunkPosOf(lastCall.pos)))
       => /\ lastCall.result = Some(NewBlockState("air"))
          /\ chunks = lastCall.before
          /\ lastCall.events = <<>>
    /\ (lastCall.op = "get_chunk_section"
        /\ ~InBounds(<<lastCall.pos[1], lastCall.pos[3]>>))
       => /\ lastCall.outcome = "ok"
          /\ lastCall.result = None
          /\ chunks = lastCall.before
          /\ lastCall.events = <<>>


\* C14: a write into a section at a position with a coordinate outside
\* [0, 16) is rejected: it panics, and the ids, the block_count and the
\* metadata of the positions inside the section are what they were.
C14_OutOfRangeWriteRejected ==
    (/\ lastCall.op \in {"section.set_block_at", "section.set_block_at_by_id"}
     /\ ~InSection(lastCall.pos))
    => /\ lastCall.outcome = "panic"
       /\ section.blocks = lastCall.before.blocks
       /\ section.block_count = lastCall.before.block_count
       /\ \A p \in DOMAIN section.block_meta \cup DOMAIN lastCall.before.block_meta :
            InSection(p) =>
               /\ p \in DOMAIN section.block_meta
               /\ p \in DOMAIN lastCall.before.block_meta
               /\ section.block_meta[p] = lastCall.before.block_meta[p]


\* C16: every entry (p -> t) of a chunk's block_entities is for a block
\* that is at p now and whose name has block-entity type t, whichever of
\* set_block_at and set_block_at_by_id wrote last at p.
C16_BlockEntitiesMatchBlocks ==
    \A p \in DOMAIN genChunk.block_entities :
        BlockEntityType(ChunkGetBlockAt(genChunk, p).name)
            = Some(genChunk.block_entities[p])

---------------------------------------------------------------------------
(* Stage transitions                                                       *)

---------------------------------------------------------------------------
(* Event dispatch and the task pool                                        *)

\* The tasks a step has appended to the channel.
Submitted == SubSeq(taskQueue', Len(taskQueue) + 1, Len(taskQueue'))

\* C18: the dispatch of an event of type T submits exactly one task per
\* handler registered for T, in their order, each with the event's payload,
\* and no handler of another type; a handler that returns an error leaves
\* the tasks in the channel and its worker in place, so the remaining
\* handlers still run.
C18_OneTaskPerHandler ==
    [][\A w \in Workers :
          LET task == workers[w].task
              ran == workers[w].state = "running"
                     /\ workers'[w].state # "running"
          IN  /\ (ran /\ task.kind = "dispatch") =>
                   /\ taskQueue' = taskQueue \o Submitted
                   /\ Len(Submitted) = Len(EventBus[task.event.type])
                   /\ \A i \in 1..Len(Submitted) :
                        /\ Submitted[i].kind = "handler"
                        /\ Submitted[i].handler = EventBus[task.event.type][i]
                        /\ Submitted[i].event = task.event
              /\ (ran /\ task.kind = "handler") =>
                   /\ taskQueue' = taskQueue
                   /\ workers'[w].state = "dead" =>
                        [handler |-> task.handler, event |-> task.event.id,
                         outcome |-> "panic"] \in runLog']_vars

\* An event with two handlers: the first returned an error, the second ran.
C18_Witness ==
    \E r1, r2 \in runLog :
        /\ r1.handler = EventBus["BreakBlockEvent"][1]
        /\ r1.outcome = "err"
        /\ r2.handler = EventBus["BreakBlockEvent"][2]
        /\ r2.event = r1.event
        /\ r2.outcome = "ok"

\* C19: handler panics do not tear the pool down: whatever has panicked, a
\* worker is left to take the tasks submitted afterwards, and no event
\* handed to spawn_event is lost: it has been dispatched, or its dispatch
\* is in the channel or in the hands of a worker.
C19_WorkersSurvivePanics ==
    /\ \E w \in Workers : workers[w].state # "dead"
    /\ \A k \in 1..Len(spawnLog) :
          \/ \E i \in 1..Len(dispatchLog) : dispatchLog[i] = spawnLog[k].id
          \/ \E i \in 1..Len(taskQueue) :
                taskQueue[i] = DispatchTask(spawnLog[k])
          \/ \E w \in Workers :
                /\ workers[w].state = "running"
                /\ workers[w].task = DispatchTask(spawnLog[k])

---------------------------------------------------------------------------
(* The end of an actor                                                     *)

\* C20: an actor's loop ends exactly when no live handle is left: with
\* every strong handle dropped, the receive of a running actor returns
\* end-of-stream, so that its thread ends; and no actor has ended while a
\* strong handle exists.
C20_ExitsWhenNoHandleIsLeft ==
    \A a \in Actors :
        /\ (actors[a].state = "running" /\ actors[a].strong = 0)
           => Disconnected(a)
        /\ actors[a].state = "exited" => actors[a].strong = 0


---------------------------------------------------------------------------
Listed(c) == Contains(connections, c)

\* The connection has been in the server's list and is no longer.
Removed(c) ==
    /\ peers[c].state # "none"
    /\ ~Listed(c)
    /\ ~Contains(srvQueue, ServerMessage("SpawnConnectionInternal", c))

\* The connections the queries answered last have returned.
Returned ==
    {c \in ConnIds : \E i \in 1..Len(replies) :
        /\ replies[i].kind \in {"GetConnections", "GetPlayers",
                                "GetPlayerByUuid"}
        /\ Contains(replies[i].value, c)}

---------------------------------------------------------------------------
\* C22: whenever the connection's current dimension is set, the entity
\* table of that dimension holds a record for the player's UUID.
C22_PlayerEntityInCurrentDimension ==
    conn.dimension # None => PlayerUuid \in DOMAIN entities

\* C25: a request about a UUID that has no record returns BadRequest,
\* leaves the entity table as it was and spawns no broadcast.
C25_UnknownUuidIsBadRequest ==
    (entityCall.op \in EntityOps /\ entityCall.uuid \notin DOMAIN entityCall.before)
        => /\ entityCall.outcome = "BadRequest"
           /\ entities = entityCall.before
           /\ entityCall.tasks = <<>>


---------------------------------------------------------------------------
\* The dimension actors whose thread runs: a thread started by
\* create_dimension never ends, its data owns a sender of its channel.
Running == 1..Len(dimThreads)

\* C23: no two running dimension actors have the same identifier, and
\* every running dimension is the one Server::dimension resolves its
\* identifier to.
C23_DimensionIdsUnique ==
    /\ \A a, b \in Running :
          dimThreads[a].name = dimThreads[b].name => a = b
    /\ \A a \in Running :
          GetDimension(dimensions, dimThreads[a].name).value = <<a>>

\* C24: Server::dimension with a key no dimension was created under returns
\* BadRequest and changes nothing in the server.
C24_UnknownKeyIsBadRequest ==
    (regCall.op = "GetDimension" /\ regCall.key \notin DOMAIN regCall.before[1])
        => /\ regCall.outcome = "BadRequest"
           /\ <<dimensions, dimThreads>> = regCall.before


---------------------------------------------------------------------------
\* C26: a chunk, whether built by Chunk::new or by the lazy initialisation
\* of the dimension, has exactly max_sections - min_sections sections, and
\* set_block_at and set_block_at_by_id leave that number as it is.
C26_SectionCountFixed ==
    Len(genChunk.sections) = genChunk.max_sections - genChunk.min_sections

\* A chunk built with bounds of its own has been written to.
C26_Witness ==
    /\ genChunk.min_sections = -1
    /\ genChunk.max_sections = 1
    /\ \E i \in 1..Len(genChunk.sections) : genChunk.sections[i].block_count > 0


---------------------------------------------------------------------------
\* The AcceptTeleportation(0) handler is inside connect_to_new_dimension.
InFlow ==
    \E i \in 1..Len(connStack) : connStack[i].kind = "AcceptTeleportation"

\* C27: once a PlayerJoinEvent handler has set the cell, the new-dimension
\* flow leaves its polling loop, and it leaves it in one of two ways: with
\* the dimension of the key as the current dimension, or, when the key
\* names no dimension, with the player disconnected, no current dimension
\* and no player entity spawned.
C27_JoinResolvesOrDisconnects ==
    /\ [][(InFlow /\ ~InFlow') =>
            /\ joinToken # NullKey
            /\ IF joinToken \in ServerDimensions
               THEN /\ conn'.dimension = Some(joinToken)
                    /\ conn'.open
               ELSE /\ conn'.dimension = None
                    /\ ~conn'.open
                    /\ spawned' = spawned]_vars
    /\ (InFlow /\ joinToken # NullKey) ~> ~InFlow

\* The flow has ended on a key that names no dimension.
C27_Witness ==
    /\ ~InFlow
    /\ joinToken = "example:missing"
    /\ ~conn.open
    /\ conn.dimension = None


---------------------------------------------------------------------------
\* The chunk coordinate a call of the dimension accesses.
Accessed(call) ==
    IF call.op = "get_chunk_section" THEN <<call.pos[1], call.pos[3]>>
    ELSE ChunkPosOf(call.pos)

\* The ChunkLoadEvents for `pos` among the events handed to the runtime.
LoadEvents(events, pos) ==
    Len(SelectSeq(events,
                  LAMBDA e : e.kind = "ChunkLoadEvent" /\ e.pos = pos))

\* The chunk try_initialize_chunk builds: Chunk::new with the bounds of the
\* dimension type, passed once through the generator.
Generated(pos) == TryInitializeChunk(EmptyMap, pos)[1][pos]

---------------------------------------------------------------------------
\* The window of the connection: centre and half side as send_chunks
\* computes them, and the loaded chunks that pruning keeps.
WindowCenter == ChunkCenter(conn.position)
WindowHalfSide == HalfSide(conn.render_distance)
Square ==
    ((WindowCenter[1] - WindowHalfSide)..(WindowCenter[1] + WindowHalfSide))
        \X ((WindowCenter[2] - WindowHalfSide)..(WindowCenter[2] + WindowHalfSide))
Kept ==
    SelectSeq(conn.loaded_chunks,
              LAMBDA pos : InWindow(pos, WindowCenter[1], WindowCenter[2],
                                    WindowHalfSide))

\* C29: the candidates send_chunks enumerates are exactly the coordinates
\* of the square that pruning keeps which are not loaded yet; a call that
\* finds no candidate has therefore the whole square loaded.
C29_CandidatesFillWindow ==
    (conn.dimension # None /\ conn.open) =>
        LET candidates == Candidates(Kept, WindowCenter[1], WindowCenter[2],
                                     WindowHalfSide)
        IN  /\ {candidates[i] : i \in 1..Len(candidates)}
                 = {pos \in Square : ~Contains(Kept, pos)}
            /\ candidates = <<>> =>
                 \A pos \in Square : Contains(conn.loaded_chunks, pos)


---------------------------------------------------------------------------
\* C30: a UseItemOn packet handled with a current dimension emits exactly
\* one event, PlaceBlockEvent at target + face when the state built from
\* the held item has a valid id and RightClickEvent otherwise; and once the
\* placement has been carried out, the held stack was decremented by one
\* (air when the count was at most one) exactly when the block was placed,
\* and left as it was otherwise.
C30_UseItemOnPlacesAndConsumes ==
    /\ \A i \in 1..Len(useLog) :
          useLog[i].outcome = "Ok" =>
             /\ Len(useLog[i].events) = 1
             /\ useLog[i].events[1].type =
                  (IF IdIsValid(useLog[i].state) THEN "PlaceBlockEvent"
                   ELSE "RightClickEvent")
             /\ IdIsValid(useLog[i].state) =>
                  useLog[i].events[1].position = useLog[i].final_pos
    /\ \A j \in 1..Len(placeLog) :
          LET use == useLog[placeLog[j].seq]
          IN  use.after =
                (IF ~placeLog[j].placed THEN use.held
                 ELSE IF use.held.count <= 1 THEN ItemAir
                 ELSE ItemStack(use.held.kind, use.held.count - 1))


---------------------------------------------------------------------------
(* Teleport acknowledgements                                               *)

\* C31: an AcceptTeleportation packet with id 0 starts the new-dimension
\* flow and leaves TELEPORT_SYNC_RECEIVED as it was; with a positive id it
\* stores the id in TELEPORT_SYNC_RECEIVED; with a negative id it changes
\* neither the dimension nor TELEPORT_SYNC_RECEIVED.
C31_AcceptTeleportationById ==
    [][\A pkt \in AcceptPackets :
         ConnRecvPacket(pkt) =>
           CASE pkt.teleport_id = 0 ->
                  /\ Polling'
                  /\ lastPacket'.events = <<[type |-> "PlayerJoinEvent"]>>
                  /\ conn'.teleport_received = conn.teleport_received
             [] pkt.teleport_id > 0 ->
                  conn'.teleport_received = Some(pkt.teleport_id)
             [] pkt.teleport_id < 0 ->
                  /\ conn'.dimension = conn.dimension
                  /\ conn'.teleport_received = conn.teleport_received]_vars


---------------------------------------------------------------------------
(* The block-update broadcast                                              *)

\* The connections a broadcast task has called write_packet for.
Written(task) == {task.wrote[k].conn : k \in 1..Len(task.wrote)}

\* The block-update packets of task i that have reached connection c.
UpdatesOf(i, c) ==
    SelectSeq(blockUpdates[c], LAMBDA packet : packet.cast = i)

---------------------------------------------------------------------------
(* Inventory packets                                                       *)

\* Where a declared change belongs: the inventory and the slot in it.
ClickTarget(before, change) ==
    IF before.screen = None
    THEN IF HasSlot(PlayerSlots, change.slot)
         THEN Some(<<"player", change.slot>>) ELSE None
    ELSE LET group == GetSlotIndexGroup(before.screen[1].rows, change.slot)
         IN  CASE group = None -> None
               [] group # None /\ group[1][1] = "PlayerHotbar" ->
                    Some(<<"player", 36 + group[1][2]>>)
               [] group # None /\ group[1][1] = "PlayerUpper" ->
                    Some(<<"player", 9 + group[1][2]>>)
               [] OTHER -> Some(<<"container", group[1][2]>>)

\* What a slot holds after the changes: the data of the last change that
\* belongs there, and what it held before when there is none.
SlotAfter(before, changes, target, held_before) ==
    LET hits == {k \in 1..Len(changes) :
                   ClickTarget(before, changes[k]) = Some(target)}
    IN  IF hits = {} THEN held_before
        ELSE changes[CHOOSE k \in hits : \A j \in hits : j <= k].data

\* C33: a ContainerClick applies every declared change to the one inventory
\* the slot grouping of the open screen names (hotbar h to player slot
\* 36 + h, upper u to player slot 9 + u, container c to slot c of the
\* screen's inventory), or to the player's inventory at the declared index
\* when no screen is open, and changes no other slot; after ContainerClose
\* no screen is open.
C33_ClickGoesToBackingInventory ==
    /\ lastInv.kind = "ContainerClick" =>
         LET before == lastInv.before
             changes == lastInv.arg
         IN  /\ \A k \in 1..Len(changes) :
                  ClickTarget(before, changes[k]) # None
             /\ \A s \in 0..(PlayerSlots - 1) :
                  GetSlot(inv.inventory, s) =
                    SlotAfter(before, changes, <<"player", s>>,
                              GetSlot(before.inventory, s))
             /\ (before.screen = None) = (inv.screen = None)
             /\ before.screen # None =>
                  /\ inv.screen[1].rows = before.screen[1].rows
                  /\ \A s \in 0..(ContainerSlots(before.screen[1].rows) - 1) :
                       GetSlot(inv.screen[1].items, s) =
                         SlotAfter(before, changes, <<"container", s>>,
                                   GetSlot(before.screen[1].items, s))
    /\ lastInv.kind = "ContainerClose" => inv.screen = None


\* C40: the held-slot index is always a hotbar slot of the player's
\* inventory, 36 to 44, whatever SetCarriedItem packets the client sends;
\* so DropItem and DropItemStack always read and clear an existing slot.
C40_HeldSlotIsHotbar ==
    /\ inv.held_slot >= 36 /\ inv.held_slot <= 44
    /\ lastInv.kind \in {"DropItem", "DropItemStack"} =>
         /\ lastInv.outcome = "Ok"
         /\ HasSlot(PlayerSlots, lastInv.arg)
         /\ GetSlot(inv.inventory, lastInv.arg) = ItemAir


---------------------------------------------------------------------------
(* Calls between actors                                                    *)

\* C34: the Server and a connection never wait for each other: the server
\* is never blocked in a call on a connection, inside Server::player, while
\* that connection is blocked in a call on the server, inside
\* connect_to_new_dimension.
C34_NoServerConnectionDeadlock ==
    \A c \in LockConns :
      ~(/\ srvActor.thread.pc = "waitConn"
        /\ srvActor.thread.at = c
        /\ connActor[c].pc = "waitServer")



---------------------------------------------------------------------------
(* Order of the placement and of the handler's write                      *)

\* The place in handledLog of the placement write of use `seq`, 0 when the
\* dimension has not handled it.
PlacementAt(seq) ==
    IF \E j \in 1..Len(handledLog) : handledLog[j] = <<"use", seq>>
    THEN CHOOSE j \in 1..Len(handledLog) : handledLog[j] = <<"use", seq>>
    ELSE 0

\* All tasks have run and the dimension has answered every request.
PoolQuiet ==
    /\ taskQueue = <<>>
    /\ dimMailbox = <<>>
    /\ \A w \in Workers : workers[w].state = "idle"

\* C35: the set_block a PlaceBlockEvent handler issues on the event's
\* position is handled by the dimension after the placement write of the
\* UseItemOn that raised the event, so that once everything has run the
\* block at the position of every PlaceBlockEvent is the handler's.
C35_HandlerWriteAfterPlacement ==
    /\ \A k \in 1..Len(handledLog) :
          handledLog[k][1] = "on_place" =>
             \E seq \in 1..Len(useLog) :
                /\ useLog[seq].event_id = handledLog[k][2]
                /\ PlacementAt(seq) \in 1..(k - 1)
    /\ PoolQuiet =>
          \A seq \in 1..Len(useLog) :
             (/\ useLog[seq].outcome = "Ok"
              /\ IdIsValid(useLog[seq].state)
              /\ PlacementAt(seq) > 0
              /\ placeLog[CHOOSE j \in 1..Len(placeLog) :
                            placeLog[j].seq = seq].placed) =>
                DimGetBlock(chunks, useLog[seq].final_pos)[1]
                  = NewBlockState("air")



---------------------------------------------------------------------------
(* The new-dimension flow, run again                                       *)

\* C36: the new-dimension flow runs at most once per connection: at most
\* one PlayerJoinEvent is dispatched for it, the task that spawns its
\* player entity is submitted and handled at most once, and no AddEntity
\* packet the flow writes to the connection carries the uuid of the
\* connection's own player.
C36_JoinFlowRunsOnce ==
    /\ conn.joins <= 1
    /\ PlayerSpawnTasks <= 1
    /\ playerSpawns <= 1
    /\ \A k \in 1..Len(entitySends) : PlayerUuid \notin entitySends[k]



---------------------------------------------------------------------------
(* Chunk transfers                                                         *)

\* The places in `writer` of the packets of transfer i.
WrittenBy(i) == {k \in 1..Len(writer) : writer[k].transfer = i}

\* C37: the four packets of one chunk transfer reach the connection's
\* writer in the order set-chunk-cache-center, chunk-batch-start, chunk
\* data, chunk-batch-finished, and contiguously: no packet of another
\* transfer is written between two packets of one transfer.
C37_TransferPacketsContiguous ==
    \A i \in 1..Len(transfers) :
       LET ks == WrittenBy(i)
       IN  ks # {} =>
             LET first == CHOOSE k \in ks : \A m \in ks : k <= m
             IN  /\ ks = first..(first + Cardinality(ks) - 1)
                 /\ \A k \in ks :
                       writer[k].kind = ChunkPacketKinds[k - first + 1]

\* C38: every coordinate send_chunks has marked as loaded is followed by
\* the chunk's data packet: while the connection is open, no transfer has
\* ended without writing the data packet of a chunk that is still in
\* loaded_chunks.
C38_LoadedChunkIsSent ==
    \A i \in 1..Len(transfers) :
       (/\ transfers[i].pc = "panicked"
        /\ conn.open
        /\ Contains(conn.loaded_chunks, transfers[i].pos)) =>
          \E k \in 1..Len(writer) :
             /\ writer[k].kind = "LevelChunkWithLight"
             /\ writer[k].pos = transfers[i].pos



---------------------------------------------------------------------------
(* Dimension types                                                         *)

\* C39: for every dimension type, a block written at a height y with
\* min_y <= y < min_y + height of a lazily initialised chunk is stored and
\* read back, and the fetch loop of chunk streaming finds a section for
\* every y it asks for and visits each section of the chunk exactly once.
C39_EveryHeightHasItsSection ==
    /\ typeCall.op = "set_block" => typeCall.read = NewBlockState("stone")
    /\ typeCall.op = "fetch" =>
          /\ \A k \in 1..Len(typeCall.slots) : typeCall.slots[k] # 0
          /\ \A s \in 1..typeCall.sections :
                Cardinality({k \in 1..Len(typeCall.slots) :
                               typeCall.slots[k] = s}) = 1

===========================================================================
